---- MODULE Spec2Model ----
(***************************************************************************)
(* Layer compositing engine of sb_generator: the component selector of     *)
(* the two storage providers (SupabaseStorage, S3Storage) and the          *)
(* Generator's generate2DImage / drawLayer loop.                           *)
(*                                                                         *)
(* JavaScript strings are sequences of one-character strings, so that      *)
(* endsWith, toLowerCase, lastIndexOf, substring and path.extname are      *)
(* computed as the code computes them.                                     *)
(***************************************************************************)
EXTENDS Integers, Sequences, FiniteSets, TLC

\* ------------------------------------------------------------------ bounds
MaxLayers == 2        \* longest layer configuration explored
MaxFiles == 2         \* longest repository listing explored

\* ------------------------------------------------- JavaScript string helpers
\* the cased letters of the names used here, capital and small
Letters ==
  << <<"A", "a">>, <<"B", "b">>, <<"C", "c">>, <<"D", "d">>, <<"E", "e">>,
     <<"F", "f">>, <<"G", "g">>, <<"H", "h">>, <<"I", "i">>, <<"J", "j">>,
     <<"K", "k">>, <<"L", "l">>, <<"M", "m">>, <<"N", "n">>, <<"O", "o">>,
     <<"P", "p">>, <<"Q", "q">>, <<"R", "r">>, <<"S", "s">>, <<"T", "t">>,
     <<"U", "u">>, <<"V", "v">>, <<"W", "w">>, <<"X", "x">>, <<"Y", "y">>,
     <<"Z", "z">> >>

\* one character of String.prototype.toLowerCase: the letters A to Z are
\* lowered, every other character of the names used here stays as it is
Lower(c) ==
  IF \E i \in 1..Len(Letters) : Letters[i][1] = c
  THEN Letters[CHOOSE i \in 1..Len(Letters) : Letters[i][1] = c][2]
  ELSE c

toLowerCase(s) == [i \in 1..Len(s) |-> Lower(s[i])]

endsWith(s, suffix) ==
  /\ Len(s) >= Len(suffix)
  /\ SubSeq(s, Len(s) - Len(suffix) + 1, Len(s)) = suffix

\* 0-based index of the last occurrence of character c, -1 when absent
lastIndexOf(s, c) ==
  LET hits == {i \in 1..Len(s) : s[i] = c}
  IN IF hits = {} THEN -1
     ELSE (CHOOSE i \in hits : \A j \in hits : j <= i) - 1

Clamp(n, len) == IF n < 0 THEN 0 ELSE IF n > len THEN len ELSE n

\* String.prototype.substring(start, end): arguments clamped to [0, length]
\* and swapped when start > end
substring(s, start, end) ==
  LET a == Clamp(start, Len(s))
      b == Clamp(end, Len(s))
      lo == IF a <= b THEN a ELSE b
      hi == IF a <= b THEN b ELSE a
  IN SubSeq(s, lo + 1, hi)

\* path.extname of a base name: from the last dot to the end; empty when
\* there is no dot, when nothing stands before the last dot, and for the
\* name ".."
extname(s) ==
  LET startDot == lastIndexOf(s, ".")
      end == Len(s)
      onlyDotsBefore == \A i \in 1..startDot : s[i] = "."
  IN IF startDot = -1 \/ startDot = 0 THEN <<>>
     ELSE IF onlyDotsBefore /\ startDot = end - 1 /\ startDot = 1 THEN <<>>
     ELSE SubSeq(s, startDot + 1, Len(s))

DotPng == <<".", "p", "n", "g">>
DotSvg == <<".", "s", "v", "g">>
DotJpg == <<".", "j", "p", "g">>
DotJpeg == <<".", "j", "p", "e", "g">>

\* ------------------------------------------------------------ configuration
Indigo == <<"i", "n", "d", "i", "g", "o">>
Green == <<"g", "r", "e", "e", "n">>
availableSpecies == <<Indigo, Green>>

\* file names a component folder may hold
FilePool ==
  { <<"a", ".", "p", "n", "g">>,
    <<"b", ".", "S", "V", "G">>,
    <<"c", ".", "1", ".", "j", "p", "g">>,
    <<".", "k", "e", "e", "p">> }

\* layer specs a configuration may be built from
LayerPool ==
  { [category |-> "background", type |-> "background", optional |-> FALSE],
    [category |-> "head", type |-> "base", optional |-> FALSE],
    [category |-> "head", type |-> "feature", optional |-> TRUE],
    [category |-> "binky", type |-> "accessory", optional |-> TRUE] }

StorageKinds == {"supabase", "s3", "none"}

SeqsUpTo(S, n) == UNION {[1..k -> S] : k \in 0..n}

IsInjective(s) == \A i, j \in 1..Len(s) : s[i] = s[j] => i = j

LayerConfigs == {c \in SeqsUpTo(LayerPool, MaxLayers) : Len(c) >= 1}

Listings == {d \in SeqsUpTo(FilePool, MaxFiles) : IsInjective(d)}

\* what the Component Repository answers to one list call: a failure, a
\* missing data field, or a listing
Responses ==
  {[kind |-> "error", data |-> <<>>], [kind |-> "null", data |-> <<>>]}
  \cup {[kind |-> "list", data |-> d] : d \in Listings}

\* ---------------------------------------------------------------- selector
IsImageFile(name) ==
  \/ endsWith(toLowerCase(name), DotPng)
  \/ endsWith(toLowerCase(name), DotSvg)
  \/ endsWith(toLowerCase(name), DotJpg)
  \/ endsWith(toLowerCase(name), DotJpeg)

FileType(name) == IF toLowerCase(extname(name)) = DotSvg THEN "svg" ELSE "bitmap"

NoUrl == [species |-> <<>>, category |-> "", name |-> <<>>]

MapFile(name, species, category) ==
  [url |-> [species |-> species, category |-> category, name |-> name],
   type |-> FileType(name),
   name |-> name]

FilterFiles(data, species, category) ==
  LET kept == SelectSeq(data, IsImageFile)
  IN [i \in 1..Len(kept) |-> MapFile(kept[i], species, category)]

IsSvgFile(f) == f.type = "svg"

\* a random index that never leaves the first element
RandomIndexFirstOnly(n) == IF n > 0 THEN {0} ELSE {}

\* Math.floor(Math.random() * n)
RandomIndex(n) == 0..(n - 1)

\* selection without the vector preference
SelectFileNoPreference(files, type) ==
  {files[r + 1] : r \in RandomIndex(Len(files))}

SelectFile(files, type) ==
  IF type \in {"base", "feature"} /\ \E i \in 1..Len(files) : IsSvgFile(files[i])
  THEN LET svgFiles == SelectSeq(files, IsSvgFile)
       IN {svgFiles[r + 1] : r \in RandomIndex(Len(svgFiles))}
  ELSE {files[r + 1] : r \in RandomIndex(Len(files))}

Thrown(err) ==
  [kind |-> "throw", error |-> err, url |-> NoUrl, name |-> <<>>,
   category |-> "", type |-> ""]

ReturnedNull ==
  [kind |-> "null", error |-> "", url |-> NoUrl, name |-> <<>>,
   category |-> "", type |-> ""]

Component(f, layerInfo) ==
  [kind |-> "component", error |-> "", url |-> f.url, name |-> f.name,
   category |-> layerInfo.category, type |-> layerInfo.type]

\* the optional flag ignored
NoComponentAlwaysThrows(layerInfo, err) == {Thrown(err)}

NoComponent(layerInfo, err) ==
  IF layerInfo.optional THEN {ReturnedNull} ELSE {Thrown(err)}

\* selection over the raw listing, without the image-kind filter
PickComponentUnfiltered(layerInfo, species, data) ==
  LET files == [i \in 1..Len(data) |-> MapFile(data[i], species, layerInfo.category)]
  IN {Component(f, layerInfo) : f \in SelectFile(files, layerInfo.type)}

PickComponent(layerInfo, species, data) ==
  LET files == FilterFiles(data, species, layerInfo.category)
  IN IF Len(files) = 0
     THEN NoComponent(layerInfo, "no_image_files")
     ELSE {Component(f, layerInfo) : f \in SelectFile(files, layerInfo.type)}

SupabaseGetRandomComponent(layerInfo, species, resp) ==
  IF resp.kind = "error" THEN {Thrown("list_error")}
  ELSE IF resp.kind = "null" \/ Len(resp.data) = 0
  THEN NoComponent(layerInfo, "no_components")
  ELSE PickComponent(layerInfo, species, resp.data)

S3GetRandomComponent(layerInfo, species, resp) ==
  IF resp.kind = "error"
  THEN (IF layerInfo.optional THEN {ReturnedNull} ELSE {Thrown("list_error")})
  ELSE IF resp.kind = "null" \/ Len(resp.data) = 0
  THEN NoComponent(layerInfo, "no_components")
  ELSE PickComponent(layerInfo, species, resp.data)

getRandomComponent(store, layerInfo, species, resp) ==
  IF store = "none" THEN {Thrown("no_storage")}
  ELSE IF store = "s3" THEN S3GetRandomComponent(layerInfo, species, resp)
  ELSE SupabaseGetRandomComponent(layerInfo, species, resp)

\* ------------------------------------------------------------------ state
VARIABLES
  layerConfig,      \* this.layerConfig, fixed at construction
  storage,          \* this.storage: "supabase", "s3" or "none" (not configured)
  pc,               \* position of the running generate2DImage call
  species,          \* species of the running call
  layerIndex,       \* loop counter of generate2DImage (0-based as in the code)
  attributes,       \* trait list under construction
  drawnCategories,  \* categories drawn in this call
  backgroundDrawn,  \* flag of generate2DImage
  response,         \* reply of the Component Repository to the current layer
  componentInfo,    \* outcome of getRandomComponent for the current layer
  canvas,           \* the shared drawing surface
  result,           \* what the last generate2DImage call returned
  log,              \* per-layer outcomes of the running call, in processing order
  stage,            \* position of the caller of generate2DImage ("off": called directly)
  nftSpecies,       \* species resolved by generateNFT and passed to generate2DImage
  program,          \* "generator": the Generator class, "script": the standalone script
  request,          \* species request: speciesOverride argument or SPECIES variable
  count,            \* number of identifiers of the batch
  nftId,            \* identifier of the running generateNFT call (the loop's i)
  attempts,         \* identifiers for which generateNFT was started, in order
  outcomes,         \* how each finished generateNFT call ended, in order
  results,          \* generateMultipleNFTs: the id of each result pushed so far
  pixelatedImage,   \* the pixelated artifact of the running call
  pixelation,       \* what the transform and the fallback copies of the call did
  nftUrl,           \* reference to the 2D artifact
  pixelatedUrl,     \* reference to the pixelated artifact
  uploaded,         \* artifacts the sink accepted during the running call
  metadata,         \* metadata document written by the running call
  nftResult,        \* value returned by the running generateNFT call
  nftError,         \* exception that left the running generateNFT call
  calls,            \* concurrent callers of one Generator, one record each
  world,            \* repeated calls: how repository, image loader and disk behave
  callNo,           \* repeated calls: number of the running call
  firstResult,      \* repeated calls: what generate2DImage returned to the first call
  size,             \* this.width and this.height of the Generator
  image,            \* drawLayer: role, category and natural size of the loaded image
  drawRect,         \* drawLayer: drawX, drawY, drawWidth, drawHeight given to drawImage
  users,            \* the users table and whether it refuses a second row per wallet
  auth              \* the authenticateWallet calls in flight, one record each

\* the locals of the running generate2DImage call
compositeVars == <<pc, species, layerIndex, attributes, drawnCategories,
                   backgroundDrawn, response, componentInfo, result, log>>

\* the locals of the running generateNFT call and of the batch loop
nftVars == <<stage, nftSpecies, program, request, count, nftId, attempts,
             outcomes, results, pixelatedImage, pixelation, nftUrl,
             pixelatedUrl, uploaded, metadata, nftResult, nftError>>

\* state of the callers of generate2DImage
\* the environment and the bookkeeping of two calls in a row
twiceVars == <<world, callNo, firstResult>>

\* one drawLayer placement
placeVars == <<size, image, drawRect>>

\* the users table and the calls of UserService
authVars == <<users, auth>>

sideVars == <<placeVars, authVars>>

callerVars == <<nftVars, calls, twiceVars, sideVars>>

vars == <<layerConfig, storage, pc, species, layerIndex, attributes,
          drawnCategories, backgroundDrawn, response, componentInfo, canvas,
          result, log, callerVars>>

NoResponse == [kind |-> "none", data |-> <<>>]

NoSelection ==
  [kind |-> "none", error |-> "", url |-> NoUrl, name |-> <<>>,
   category |-> "", type |-> ""]

NoResult ==
  [status |-> "none", nftPath |-> "", attributes |-> <<>>, species |-> <<>>]

BlankCanvas == [fill |-> "transparent", stack |-> <<>>]
ErrorCanvas == [fill |-> "magenta", stack |-> <<>>]

ErrorSpecies == <<"e", "r", "r", "o", "r">>
ErrorAttributes == << [trait_type |-> "error", value |-> <<"generation_failed">>] >>

SpeciesSet == {availableSpecies[i] : i \in 1..Len(availableSpecies)}

\* the Generator after construction, no call running
InitGenerator ==
  /\ pc = "idle"
  /\ species = <<>>
  /\ layerIndex = 0
  /\ attributes = <<>>
  /\ drawnCategories = {}
  /\ backgroundDrawn = FALSE
  /\ response = NoResponse
  /\ componentInfo = NoSelection
  /\ canvas = BlankCanvas
  /\ result = NoResult
  /\ log = <<>>

Absent == <<>>

NoArtifact == [content |-> "none", of |-> ""]
NoPixelation == [transform |-> "none", canCopy |-> FALSE]
NoRef == [kind |-> "none", file |-> ""]
NoMetadata == [id |-> 0, species |-> <<>>, images2D |-> NoRef,
               imagesPixelated |-> NoRef, attributes |-> <<>>]
NoNftResult == [id |-> 0, species |-> <<>>, nftUrl |-> NoRef,
                pixelatedUrl |-> NoRef, metadata |-> NoMetadata]

\* the locals of one generateNFT call before its first step
InitCall ==
  /\ pixelatedImage = NoArtifact
  /\ pixelation = NoPixelation
  /\ nftUrl = NoRef
  /\ pixelatedUrl = NoRef
  /\ uploaded = {}
  /\ metadata = NoMetadata
  /\ nftResult = NoNftResult
  /\ nftError = "none"

NoFirstResult == [status |-> "none", traits |-> <<>>]

\* the environment is not pinned down, no call has been made
InitWorld ==
  /\ world = [listing |-> <<>>, broken |-> {}, disk |-> "any"]
  /\ callNo = 1
  /\ firstResult = NoFirstResult

NoImage == [type |-> "", category |-> "", width |-> 0, height |-> 0]
NoRect == <<>>
DefaultSize == [width |-> 512, height |-> 512]
NoUsers == [rows |-> <<>>, unique |-> FALSE]

\* no image is being placed, UserService has not been called
InitSide ==
  /\ size = DefaultSize
  /\ image = NoImage
  /\ drawRect = NoRect
  /\ users = NoUsers
  /\ auth = <<>>

Init ==
  /\ layerConfig \in LayerConfigs
  /\ storage \in StorageKinds
  /\ InitGenerator
  /\ stage = "off"
  /\ nftSpecies = <<>>
  /\ program = "generator"
  /\ request = Absent
  /\ count = 0
  /\ nftId = 0
  /\ attempts = <<>>
  /\ outcomes = <<>>
  /\ results = <<>>
  /\ InitCall
  /\ calls = <<>>
  /\ InitWorld
  /\ InitSide

\* ------------------------------------------------------------- drawLayer
\* canvas after ctx.fillRect(0, 0, width, height) with an opaque colour:
\* everything drawn before is covered
fillRectLeavesClear(colour) == [fill |-> "transparent", stack |-> <<>>]

fillRect(colour) == [fill |-> colour, stack |-> <<>>]

\* a drawLayer whose white repaint on failure is not limited to the background
drawLayerAlwaysRepaints(imageInfo, cv, decodeOk, drawOk) ==
  IF imageInfo.kind # "component"
  THEN [drawn |-> FALSE, painted |-> FALSE, canvas |-> cv]
  ELSE IF decodeOk /\ drawOk
  THEN [drawn |-> TRUE, painted |-> TRUE,
        canvas |-> [cv EXCEPT !.stack = Append(cv.stack, imageInfo.name)]]
  ELSE IF imageInfo.type = "background"
  THEN [drawn |-> TRUE, painted |-> FALSE, canvas |-> fillRect("white")]
  ELSE [drawn |-> FALSE, painted |-> FALSE, canvas |-> fillRect("white")]

\* drawLayer(imageInfo): decodeOk says whether loadImage resolves, drawOk
\* whether ctx.drawImage returns; gives the return value and the canvas
drawLayer(imageInfo, cv, decodeOk, drawOk) ==
  IF imageInfo.kind # "component"
  THEN [drawn |-> FALSE, painted |-> FALSE, canvas |-> cv]
  ELSE IF decodeOk /\ drawOk
  THEN [drawn |-> TRUE, painted |-> TRUE,
        canvas |-> [cv EXCEPT !.stack = Append(cv.stack, imageInfo.name)]]
  ELSE IF imageInfo.type = "background"
  THEN [drawn |-> TRUE, painted |-> FALSE, canvas |-> fillRect("white")]
  ELSE [drawn |-> FALSE, painted |-> FALSE, canvas |-> cv]

\* fileName.substring(0, fileName.lastIndexOf('.')) || fileName
fileNameWithoutExt(fileName) ==
  LET cut == substring(fileName, 0, lastIndexOf(fileName, "."))
  IN IF cut = <<>> THEN fileName ELSE cut

\* ------------------------------------------------------- generate2DImage
RespClass(resp) ==
  IF resp.kind = "none" THEN "none"
  ELSE IF resp.kind = "error" THEN "error"
  ELSE IF resp.kind = "null" \/ Len(resp.data) = 0 THEN "empty"
  ELSE IF SelectSeq(resp.data, IsImageFile) = <<>> THEN "noimage"
  ELSE "images"

LogEntry(idx, resp, sel, decoded, painted, drawn) ==
  [index |-> idx, resp |-> resp, sel |-> sel, decoded |-> decoded,
   painted |-> painted, drawn |-> drawn]

\* the outer catch block of generate2DImage: error-marker canvas, emergency
\* artifact, error-tagged result; a failing emergency write escapes the call
Catastrophic(emergencyOk) ==
  IF emergencyOk
  THEN [status |-> "returned", nftPath |-> "emergency",
        attributes |-> ErrorAttributes, species |-> ErrorSpecies]
  ELSE [status |-> "raised", nftPath |-> "", attributes |-> <<>>,
        species |-> <<>>]

\* let attributes = []; attributes.push({trait_type: "species", value: species})
InitialAttributesNoSpecies(sp) == <<>>

InitialAttributes(sp) == << [trait_type |-> "species", value |-> sp] >>

\* if (layerDrawn) drawnCategories.add(layerInfo.category)
AddDrawnForgets(cats, category, layerDrawn) == cats

AddDrawn(cats, category, layerDrawn) ==
  IF layerDrawn THEN cats \cup {category} ELSE cats

\* if (layerDrawn) attributes.push({trait_type: category, value: fileNameWithoutExt})
PushAttributeUnshift(attrs, category, fileName, layerDrawn) ==
  IF layerDrawn
  THEN <<attrs[1]>> \o << [trait_type |-> category,
                           value |-> fileNameWithoutExt(fileName)] >>
       \o Tail(attrs)
  ELSE attrs

PushAttribute(attrs, category, fileName, layerDrawn) ==
  IF layerDrawn
  THEN Append(attrs, [trait_type |-> category,
                      value |-> fileNameWithoutExt(fileName)])
  ELSE attrs

\* the species argument of generate2DImage: any configured species when it is
\* called directly, the species generateNFT resolved when generateNFT calls it
SpeciesArgs == IF stage = "off" THEN SpeciesSet ELSE {nftSpecies}

\* entry of generate2DImage up to the first loop test; a Generator runs any
\* number of calls one after another
BeginKeepsDrawn ==
  /\ pc \in {"idle", "done"}
  /\ \E sp \in SpeciesArgs, folderOk \in BOOLEAN, emergencyOk \in BOOLEAN :
       /\ species' = sp
       /\ IF folderOk
          THEN /\ canvas' = fillRect("white")
               /\ attributes' = InitialAttributes(sp)
               /\ pc' = "loop"
               /\ result' = NoResult
          ELSE /\ canvas' = ErrorCanvas
               /\ attributes' = <<>>
               /\ pc' = "done"
               /\ result' = Catastrophic(emergencyOk)
  /\ layerIndex' = 0
  /\ backgroundDrawn' = FALSE
  /\ response' = NoResponse
  /\ componentInfo' = NoSelection
  /\ log' = <<>>
  /\ UNCHANGED <<layerConfig, storage, drawnCategories>>
  /\ UNCHANGED callerVars

\* generate2DImage without the clearRect / fillRect at its start
BeginKeepsCanvas ==
  /\ pc \in {"idle", "done"}
  /\ \E sp \in SpeciesArgs, folderOk \in BOOLEAN, emergencyOk \in BOOLEAN :
       /\ species' = sp
       /\ IF folderOk
          THEN /\ canvas' = canvas
               /\ attributes' = InitialAttributes(sp)
               /\ pc' = "loop"
               /\ result' = NoResult
          ELSE /\ canvas' = ErrorCanvas
               /\ attributes' = <<>>
               /\ pc' = "done"
               /\ result' = Catastrophic(emergencyOk)
  /\ layerIndex' = 0
  /\ drawnCategories' = {}
  /\ backgroundDrawn' = FALSE
  /\ response' = NoResponse
  /\ componentInfo' = NoSelection
  /\ log' = <<>>
  /\ UNCHANGED <<layerConfig, storage>>
  /\ UNCHANGED callerVars

Begin ==
  /\ pc \in {"idle", "done"}
  /\ \E sp \in SpeciesArgs, folderOk \in BOOLEAN, emergencyOk \in BOOLEAN :
       /\ species' = sp
       /\ IF folderOk
          THEN /\ canvas' = fillRect("white")
               /\ attributes' = InitialAttributes(sp)
               /\ pc' = "loop"
               /\ result' = NoResult
          ELSE /\ canvas' = ErrorCanvas
               /\ attributes' = <<>>
               /\ pc' = "done"
               /\ result' = Catastrophic(emergencyOk)
  /\ layerIndex' = 0
  /\ drawnCategories' = {}
  /\ backgroundDrawn' = FALSE
  /\ response' = NoResponse
  /\ componentInfo' = NoSelection
  /\ log' = <<>>
  /\ UNCHANGED <<layerConfig, storage>>
  /\ UNCHANGED callerVars

InLoop == pc = "loop" /\ layerIndex < Len(layerConfig)

layerInfo == layerConfig[layerIndex + 1]

\* a loop without the duplicate guard: the repeated category is queried
SkipDuplicateQueries ==
  /\ InLoop
  /\ layerInfo.category \in drawnCategories
  /\ \E resp \in Responses :
       /\ response' = (IF storage = "none" THEN NoResponse ELSE resp)
       /\ componentInfo' \in getRandomComponent(storage, layerInfo, species, resp)
  /\ pc' = "selected"
  /\ UNCHANGED <<layerConfig, storage, species, layerIndex,
                 attributes, drawnCategories, backgroundDrawn, canvas, result,
                 log>>
  /\ UNCHANGED callerVars

\* duplicate guard: continue without querying the repository
SkipDuplicate ==
  /\ InLoop
  /\ layerInfo.category \in drawnCategories
  /\ layerIndex' = layerIndex + 1
  /\ log' = Append(log, LogEntry(layerIndex, "none", "duplicate", FALSE, FALSE, FALSE))
  /\ UNCHANGED <<layerConfig, storage, pc, species, attributes,
                 drawnCategories, backgroundDrawn, response, componentInfo,
                 canvas, result>>
  /\ UNCHANGED callerVars

\* await this.getRandomComponent(layerInfo, species)
SelectComponent ==
  /\ InLoop
  /\ layerInfo.category \notin drawnCategories
  /\ \E resp \in Responses :
       /\ response' = (IF storage = "none" THEN NoResponse ELSE resp)
       /\ componentInfo' \in getRandomComponent(storage, layerInfo, species, resp)
  /\ pc' = "selected"
  /\ UNCHANGED <<layerConfig, storage, species, layerIndex,
                 attributes, drawnCategories, backgroundDrawn, canvas, result,
                 log>>
  /\ UNCHANGED callerVars

\* a loop body without the inner try/catch: a selector failure reaches the
\* outer catch and ends the call
SkipLayerAborts ==
  /\ pc = "selected"
  /\ componentInfo.kind \in {"throw", "null"}
  /\ IF componentInfo.kind = "throw"
     THEN /\ pc' = "done"
          /\ result' = Catastrophic(TRUE)
          /\ canvas' = ErrorCanvas
          /\ UNCHANGED <<log, layerIndex>>
     ELSE /\ pc' = "loop"
          /\ log' = Append(log, LogEntry(layerIndex, RespClass(response),
                                         componentInfo.kind, FALSE, FALSE, FALSE))
          /\ layerIndex' = layerIndex + 1
          /\ UNCHANGED <<result, canvas>>
  /\ response' = NoResponse
  /\ componentInfo' = NoSelection
  /\ UNCHANGED <<layerConfig, storage, species, attributes,
                 drawnCategories, backgroundDrawn>>
  /\ UNCHANGED callerVars

\* the selector threw (inner catch) or returned null (continue)
SkipLayer ==
  /\ pc = "selected"
  /\ componentInfo.kind \in {"throw", "null"}
  /\ log' = Append(log, LogEntry(layerIndex, RespClass(response),
                                 componentInfo.kind, FALSE, FALSE, FALSE))
  /\ layerIndex' = layerIndex + 1
  /\ pc' = "loop"
  /\ response' = NoResponse
  /\ componentInfo' = NoSelection
  /\ UNCHANGED <<layerConfig, storage, species, attributes,
                 drawnCategories, backgroundDrawn, canvas, result>>
  /\ UNCHANGED callerVars

\* a component was selected: drawLayer, then the bookkeeping of the loop body
DrawSelected ==
  /\ pc = "selected"
  /\ componentInfo.kind = "component"
  /\ \E decodeOk \in BOOLEAN, drawOk \in BOOLEAN :
       LET d == drawLayer(componentInfo, canvas, decodeOk, drawOk)
       IN /\ canvas' = d.canvas
          /\ backgroundDrawn' = (IF layerInfo.category = "background"
                                 THEN d.drawn ELSE backgroundDrawn)
          /\ drawnCategories' = AddDrawn(drawnCategories, layerInfo.category, d.drawn)
          /\ attributes' = PushAttribute(attributes, layerInfo.category,
                                         componentInfo.name, d.drawn)
          /\ log' = Append(log, LogEntry(layerIndex, RespClass(response),
                                         "component", decodeOk, d.painted, d.drawn))
  /\ layerIndex' = layerIndex + 1
  /\ pc' = "loop"
  /\ response' = NoResponse
  /\ componentInfo' = NoSelection
  /\ UNCHANGED <<layerConfig, storage, species, result>>
  /\ UNCHANGED callerVars

\* a save whose retry on the fallback path is reported as a failed generation
SaveImageFallbackFails ==
  /\ pc = "loop"
  /\ layerIndex >= Len(layerConfig)
  /\ \E primaryOk \in BOOLEAN, fallbackOk \in BOOLEAN, emergencyOk \in BOOLEAN :
       IF primaryOk
       THEN /\ result' = [status |-> "returned", nftPath |-> "primary",
                          attributes |-> attributes, species |-> species]
            /\ canvas' = canvas
       ELSE IF fallbackOk
       THEN /\ result' = [status |-> "returned", nftPath |-> "fallback",
                          attributes |-> ErrorAttributes, species |-> ErrorSpecies]
            /\ canvas' = ErrorCanvas
       ELSE /\ result' = Catastrophic(emergencyOk)
            /\ canvas' = ErrorCanvas
  /\ pc' = "done"
  /\ UNCHANGED <<layerConfig, storage, species, layerIndex,
                 attributes, drawnCategories, backgroundDrawn, response,
                 componentInfo, log>>
  /\ UNCHANGED callerVars

\* after the loop: write the artifact, retry on the fallback path, and fall
\* into the outer catch when both writes fail
SaveImage ==
  /\ pc = "loop"
  /\ layerIndex >= Len(layerConfig)
  /\ \E primaryOk \in BOOLEAN, fallbackOk \in BOOLEAN, emergencyOk \in BOOLEAN :
       IF primaryOk
       THEN /\ result' = [status |-> "returned", nftPath |-> "primary",
                          attributes |-> attributes, species |-> species]
            /\ canvas' = canvas
       ELSE IF fallbackOk
       THEN /\ result' = [status |-> "returned", nftPath |-> "fallback",
                          attributes |-> attributes, species |-> species]
            /\ canvas' = canvas
       ELSE /\ result' = Catastrophic(emergencyOk)
            /\ canvas' = ErrorCanvas
  /\ pc' = "done"
  /\ UNCHANGED <<layerConfig, storage, species, layerIndex,
                 attributes, drawnCategories, backgroundDrawn, response,
                 componentInfo, log>>
  /\ UNCHANGED callerVars

Next ==
  \/ Begin
  \/ SkipDuplicate
  \/ SelectComponent
  \/ SkipLayer
  \/ DrawSelected
  \/ SaveImage

Spec == Init /\ [][Next]_vars

TypeOK ==
  /\ pc \in {"idle", "loop", "selected", "done"}
  /\ layerIndex \in 0..Len(layerConfig)
  /\ result.status \in {"none", "returned", "raised"}

\* ============================================================ generateNFT
MaxCount == 2         \* largest batch explored
MaxNFTLayers == 1     \* longest layer configuration under generateNFT

Random == <<"r", "a", "n", "d", "o", "m">>

\* species requests: none, the configured names, "random", a mixed-case name
RequestPool == {Absent, Indigo, Green, Random, <<"G", "r", "e", "e", "n">>}

DefaultSpecies == Indigo

\* Generator.getSpeciesToGenerate()
GeneratorGetSpeciesToGenerate ==
  IF Len(availableSpecies) = 0
  THEN {DefaultSpecies}
  ELSE {availableSpecies[i + 1] : i \in RandomIndex(Len(availableSpecies))}

\* getSpeciesToGenerate() of the script, speciesEnv = process.env.SPECIES
ScriptGetSpeciesToGenerate(env) ==
  LET speciesEnv == toLowerCase(env)
  IN IF env = Absent THEN {DefaultSpecies}
     ELSE IF speciesEnv = Random
     THEN {availableSpecies[i + 1] : i \in RandomIndex(Len(availableSpecies))}
     ELSE IF speciesEnv \in SpeciesSet THEN {speciesEnv}
     ELSE {DefaultSpecies}

\* the species generate2DImage works with:
\* generator: speciesOverride || this.getSpeciesToGenerate()
\* script: getSpeciesToGenerate()
ResolveSpecies(prog, req) ==
  IF prog = "generator"
  THEN IF req # Absent THEN {req} ELSE GeneratorGetSpeciesToGenerate
  ELSE ScriptGetSpeciesToGenerate(req)

\* typeof this.storage.uploadFile === 'function': SupabaseStorage defines
\* uploadFile, S3Storage defines upload
HasUploadFile(store) == store = "supabase"

Url(file) == [kind |-> "url", file |-> file]
LocalPath(file) == [kind |-> "local", file |-> file]
NullRef == [kind |-> "null", file |-> ""]

\* the configurations generateNFT is explored with: up to MaxNFTLayers
\* layers, and a configuration that names one category twice (the layers
\* option is taken as the caller gives it)
NFTLayerConfigs ==
  {c \in SeqsUpTo(LayerPool, MaxNFTLayers) : Len(c) >= 1}
    \cup { << [category |-> "head", type |-> "base", optional |-> FALSE],
              [category |-> "head", type |-> "feature", optional |-> TRUE] >> }

InitNFT ==
  /\ program \in {"generator", "script"}
  /\ layerConfig \in NFTLayerConfigs
  /\ storage \in (IF program = "generator" THEN StorageKinds ELSE {"supabase"})
  /\ request \in RequestPool
  /\ count = 1
  /\ InitGenerator
  /\ stage = "idle"
  /\ nftSpecies = <<>>
  /\ nftId = 1
  /\ attempts = <<>>
  /\ outcomes = <<>>
  /\ results = <<>>
  /\ InitCall
  /\ calls = <<>>
  /\ InitWorld
  /\ InitSide

Outcome(id, how) == [id |-> id, outcome |-> how]

\* entry of generateNFT(id): clear the canvas, resolve the species
GenerateNFT ==
  /\ stage = "idle"
  /\ nftId <= count
  /\ canvas' = BlankCanvas
  /\ nftSpecies' \in ResolveSpecies(program, request)
  /\ attempts' = Append(attempts, nftId)
  /\ stage' = "compose"
  /\ pc' = "idle"
  /\ pixelatedImage' = NoArtifact
  /\ pixelation' = NoPixelation
  /\ nftUrl' = NoRef
  /\ pixelatedUrl' = NoRef
  /\ uploaded' = {}
  /\ metadata' = NoMetadata
  /\ nftResult' = NoNftResult
  /\ nftError' = "none"
  /\ UNCHANGED <<layerConfig, storage, species, layerIndex, attributes,
                 drawnCategories, backgroundDrawn, response, componentInfo,
                 result, log>>
  /\ UNCHANGED <<program, request, count, nftId, outcomes, results, calls,
                 twiceVars, sideVars>>

\* await generate2DImage(id, species)
Compose ==
  /\ stage = "compose"
  /\ pc = "idle"
  /\ Begin

\* pixelateImage(inputPath, outputPath): what is at outputPath afterwards, or
\* "null" for a null return and "missing" for a path that does not exist
pixelateImage(transform, copyOk) ==
  IF transform = "ok" THEN "pixelated"
  ELSE IF transform = "nooutput" THEN "missing"
  ELSE IF copyOk THEN "copy"
  ELSE "null"

\* the try/catch around pixelateImage in generateNFT: copyFileSync inside the
\* try, once more inside the catch; "raise" when that one throws too
PixelatedContent(p, secondCopyOk, thirdCopyOk) ==
  IF p \in {"pixelated", "copy"} THEN p
  ELSE IF secondCopyOk \/ thirdCopyOk THEN "copy"
  ELSE "raise"

\* the species in artifact names, metadata and the returned result: the
\* generator keeps its own, the script takes the one generate2DImage returned
ResultSpecies == IF program = "generator" THEN nftSpecies ELSE result.species

\* generate2DImage has settled: an exception of it leaves generateNFT, and
\* so does the existsSync test on the returned path when the file is not
\* there; else step 2, the pixelated artifact
Pixelate ==
  /\ stage = "compose"
  /\ pc = "done"
  /\ IF result.status = "raised"
     THEN /\ stage' = "raised"
          /\ nftError' = "emergency write"
          /\ outcomes' = Append(outcomes, Outcome(nftId, "raised"))
          /\ UNCHANGED <<pixelatedImage, pixelation>>
     ELSE \E exists \in BOOLEAN, transform \in {"ok", "throws", "nooutput"},
             copyOk \in BOOLEAN, secondCopyOk \in BOOLEAN, thirdCopyOk \in BOOLEAN :
            LET content == PixelatedContent(pixelateImage(transform, copyOk),
                                            secondCopyOk, thirdCopyOk)
            IN IF ~exists
               THEN /\ stage' = "raised"
                    /\ nftError' = "missing artifact"
                    /\ outcomes' = Append(outcomes, Outcome(nftId, "raised"))
                    /\ UNCHANGED <<pixelatedImage, pixelation>>
               ELSE /\ pixelation' = [transform |-> transform,
                                      canCopy |-> \/ transform = "throws" /\ copyOk
                                                  \/ secondCopyOk
                                                  \/ thirdCopyOk]
                    /\ IF content = "raise"
                       THEN /\ stage' = "raised"
                            /\ nftError' = "copy"
                            /\ outcomes' = Append(outcomes, Outcome(nftId, "raised"))
                            /\ UNCHANGED pixelatedImage
                       ELSE /\ stage' = "upload"
                            /\ pixelatedImage' = [content |-> content, of |-> result.nftPath]
                            /\ UNCHANGED <<nftError, outcomes>>
  /\ UNCHANGED <<layerConfig, storage, canvas, compositeVars, calls, twiceVars, sideVars>>
  /\ UNCHANGED <<nftSpecies, program, request, count, nftId, attempts, results,
                 nftUrl, pixelatedUrl, uploaded, metadata, nftResult>>

\* step 3 of the generator, up to the first awaited upload: the references
\* start as the local paths; only a storage with uploadFile is asked; a first
\* upload that throws lands in the catch of the one try around both uploads
GeneratorUploadUnchecked(store, firstOk) ==
  [nftUrl |-> Url("image.png"), pixelatedUrl |-> LocalPath("pixelated"),
   uploaded |-> (IF firstOk THEN {"image.png"} ELSE {}),
   next |-> IF HasUploadFile(store) /\ firstOk THEN "upload2" ELSE "metadata"]

\* two uploads that do not share one try: the second is attempted whatever
\* the first did
GeneratorUploadIndependent(store, firstOk) ==
  IF ~HasUploadFile(store)
  THEN [nftUrl |-> LocalPath(result.nftPath), pixelatedUrl |-> LocalPath("pixelated"),
        uploaded |-> {}, next |-> "metadata"]
  ELSE [nftUrl |-> IF firstOk THEN Url("image.png") ELSE LocalPath(result.nftPath),
        pixelatedUrl |-> LocalPath("pixelated"),
        uploaded |-> (IF firstOk THEN {"image.png"} ELSE {}),
        next |-> "upload2"]

GeneratorUpload(store, firstOk) ==
  IF ~HasUploadFile(store)
  THEN [nftUrl |-> LocalPath(result.nftPath), pixelatedUrl |-> LocalPath("pixelated"),
        uploaded |-> {}, next |-> "metadata"]
  ELSE [nftUrl |-> IF firstOk THEN Url("image.png") ELSE LocalPath(result.nftPath),
        pixelatedUrl |-> LocalPath("pixelated"),
        uploaded |-> (IF firstOk THEN {"image.png"} ELSE {}),
        next |-> IF firstOk THEN "upload2" ELSE "metadata"]

\* the script: the first of two independent uploadToSupabase calls, null when
\* it fails; the second call follows whatever the first returned
ScriptUpload(firstOk) ==
  [nftUrl |-> IF firstOk THEN Url("image.png") ELSE NullRef,
   pixelatedUrl |-> NoRef,
   uploaded |-> (IF firstOk THEN {"image.png"} ELSE {}),
   next |-> "upload2"]

\* the first awaited upload settles: image.png is in the bucket or not, and
\* the call waits for the second upload, or, the Generator's first upload
\* having failed (or its storage having no uploadFile), goes to step 4
Upload ==
  /\ stage = "upload"
  /\ \E firstOk \in BOOLEAN :
       LET u == IF program = "generator"
                THEN GeneratorUpload(storage, firstOk)
                ELSE ScriptUpload(firstOk)
       IN /\ nftUrl' = u.nftUrl
          /\ pixelatedUrl' = u.pixelatedUrl
          /\ uploaded' = u.uploaded
          /\ stage' = u.next
  /\ UNCHANGED <<layerConfig, storage, canvas, compositeVars, calls, twiceVars, sideVars>>
  /\ UNCHANGED <<nftSpecies, program, request, count, nftId, attempts, outcomes, results,
                 pixelatedImage, pixelation,
                 metadata, nftResult, nftError>>

\* the second awaited upload settles: image_pixelated.png is in the bucket or
\* not; a failure leaves the Generator's reference the local path and the
\* script's reference null
UploadPixelated ==
  /\ stage = "upload2"
  /\ \E secondOk \in BOOLEAN :
       /\ pixelatedUrl' = (IF secondOk THEN Url("image_pixelated.png")
                           ELSE IF program = "generator" THEN pixelatedUrl
                           ELSE NullRef)
       /\ uploaded' = uploaded \cup (IF secondOk THEN {"image_pixelated.png"} ELSE {})
  /\ stage' = "metadata"
  /\ UNCHANGED <<layerConfig, storage, canvas, compositeVars, calls, twiceVars, sideVars>>
  /\ UNCHANGED <<nftSpecies, program, request, count, nftId, attempts, outcomes, results,
                 pixelatedImage, pixelation, nftUrl,
                 metadata, nftResult, nftError>>

\* the metadata document of step 4
Metadata ==
  [id |-> nftId, species |-> ResultSpecies, images2D |-> nftUrl,
   imagesPixelated |-> pixelatedUrl, attributes |-> result.attributes]

\* a metadata step that does not wait for the upload step
WriteMetadataEarly ==
  /\ stage \in {"upload", "upload2", "metadata"}
  /\ \E writeOk \in BOOLEAN :
       IF writeOk
       THEN /\ metadata' = Metadata
            /\ nftResult' = [id |-> nftId, species |-> ResultSpecies,
                             nftUrl |-> nftUrl, pixelatedUrl |-> pixelatedUrl,
                             metadata |-> Metadata]
            /\ stage' = "returned"
            /\ outcomes' = Append(outcomes, Outcome(nftId, "returned"))
            /\ UNCHANGED nftError
       ELSE /\ stage' = "raised"
            /\ nftError' = "metadata write"
            /\ outcomes' = Append(outcomes, Outcome(nftId, "raised"))
            /\ UNCHANGED <<metadata, nftResult>>
  /\ UNCHANGED <<layerConfig, storage, canvas, compositeVars, calls, twiceVars, sideVars>>
  /\ UNCHANGED <<nftSpecies, program, request, count, nftId, attempts, results,
                 pixelatedImage, pixelation,
                 nftUrl, pixelatedUrl, uploaded>>

\* step 4: write the metadata document and return; a failing write leaves
\* generateNFT as an exception
WriteMetadata ==
  /\ stage = "metadata"
  /\ \E writeOk \in BOOLEAN :
       IF writeOk
       THEN /\ metadata' = Metadata
            /\ nftResult' = [id |-> nftId, species |-> ResultSpecies,
                             nftUrl |-> nftUrl, pixelatedUrl |-> pixelatedUrl,
                             metadata |-> Metadata]
            /\ stage' = "returned"
            /\ outcomes' = Append(outcomes, Outcome(nftId, "returned"))
            /\ UNCHANGED nftError
       ELSE /\ stage' = "raised"
            /\ nftError' = "metadata write"
            /\ outcomes' = Append(outcomes, Outcome(nftId, "raised"))
            /\ UNCHANGED <<metadata, nftResult>>
  /\ UNCHANGED <<layerConfig, storage, canvas, compositeVars, calls, twiceVars, sideVars>>
  /\ UNCHANGED <<nftSpecies, program, request, count, nftId, attempts, results,
                 pixelatedImage, pixelation,
                 nftUrl, pixelatedUrl, uploaded>>

\* generateMultipleNFTs: the try/catch around await generateNFT(i), then i++
NextIdentifierStops ==
  /\ program = "script"
  /\ stage \in {"returned", "raised"}
  /\ results' = (IF stage = "returned" THEN Append(results, nftResult.id) ELSE results)
  /\ nftId' = (IF stage = "returned" THEN nftId + 1 ELSE count + 1)
  /\ stage' = "idle"
  /\ UNCHANGED <<layerConfig, storage, canvas, compositeVars, calls, twiceVars, sideVars>>
  /\ UNCHANGED <<nftSpecies, program, request, count, attempts, outcomes,
                 pixelatedImage, pixelation,
                 nftUrl, pixelatedUrl, uploaded, metadata, nftResult, nftError>>

NextIdentifier ==
  /\ program = "script"
  /\ stage \in {"returned", "raised"}
  /\ results' = (IF stage = "returned" THEN Append(results, nftResult.id) ELSE results)
  /\ nftId' = nftId + 1
  /\ stage' = "idle"
  /\ UNCHANGED <<layerConfig, storage, canvas, compositeVars, calls, twiceVars, sideVars>>
  /\ UNCHANGED <<nftSpecies, program, request, count, attempts, outcomes,
                 pixelatedImage, pixelation,
                 nftUrl, pixelatedUrl, uploaded, metadata, nftResult, nftError>>

\* the loop test fails: return results
ReturnResults ==
  /\ program = "script"
  /\ stage = "idle"
  /\ nftId > count
  /\ stage' = "finished"
  /\ UNCHANGED <<layerConfig, storage, canvas, compositeVars, calls, twiceVars, sideVars>>
  /\ UNCHANGED <<nftSpecies, program, request, count, nftId, attempts, outcomes, results,
                 pixelatedImage, pixelation,
                 nftUrl, pixelatedUrl, uploaded, metadata,
                 nftResult, nftError>>

\* one generateNFT call
NextNFT ==
  \/ GenerateNFT
  \/ Compose
  \/ SkipDuplicate
  \/ SelectComponent
  \/ SkipLayer
  \/ DrawSelected
  \/ SaveImage
  \/ Pixelate
  \/ Upload
  \/ UploadPixelated
  \/ WriteMetadata

SpecNFT == InitNFT /\ [][NextNFT]_vars

\* generateMultipleNFTs(count) of the script, SPECIES not set
InitBatch ==
  /\ program = "script"
  /\ layerConfig \in NFTLayerConfigs
  /\ storage = "supabase"
  /\ request = Absent
  /\ count \in 1..MaxCount
  /\ InitGenerator
  /\ stage = "idle"
  /\ nftSpecies = <<>>
  /\ nftId = 1
  /\ attempts = <<>>
  /\ outcomes = <<>>
  /\ results = <<>>
  /\ InitCall
  /\ calls = <<>>
  /\ InitWorld
  /\ InitSide

NextBatch ==
  \/ GenerateNFT
  \/ Compose
  \/ SkipDuplicate
  \/ SelectComponent
  \/ SkipLayer
  \/ DrawSelected
  \/ SaveImage
  \/ Pixelate
  \/ Upload
  \/ UploadPixelated
  \/ WriteMetadata
  \/ NextIdentifier
  \/ ReturnResults

SpecBatch == InitBatch /\ [][NextBatch]_vars

\* ================================= concurrent callers of one Generator
MaxRequests == 2      \* number of concurrent callers explored

Requests == 1..MaxRequests

NoCall ==
  [at |-> "none", species |-> <<>>, layerIndex |-> 0, drawnCategories |-> {},
   componentInfo |-> NoSelection, layerDrawn |-> FALSE, artifact |-> BlankCanvas]

\* the generateNFT calls between clearing the canvas and leaving generateNFT
InProgress ==
  {r \in DOMAIN calls : calls[r].at \notin {"none", "returned", "raised", "status500"}}

\* one Generator constructed with a layer configuration and a SupabaseStorage,
\* its canvas shared by every caller; the SpaceBabyService of the server has
\* no generator (this.generator = null)
InitService ==
  /\ layerConfig \in NFTLayerConfigs
  /\ storage = "supabase"
  /\ InitGenerator
  /\ stage = "service"
  /\ nftSpecies = <<>>
  /\ program = "generator"
  /\ request = Absent
  /\ count = 0
  /\ nftId = 0
  /\ attempts = <<>>
  /\ outcomes = <<>>
  /\ results = <<>>
  /\ InitCall
  /\ calls = [r \in Requests |-> NoCall]
  /\ InitWorld
  /\ InitSide

\* the first layer at or after idx whose category is not drawn yet (the loop
\* skips drawn categories without suspending), Len(layerConfig) if none
NextLayer(idx, cats) ==
  LET open == {i \in idx..(Len(layerConfig) - 1) : layerConfig[i + 1].category \notin cats}
  IN IF open = {} THEN Len(layerConfig)
     ELSE CHOOSE i \in open : \A j \in open : i <= j

\* the outer catch of generate2DImage: the shared canvas is repainted as the
\* error marker and written as the emergency artifact, with which the call
\* goes on to its pixelation step; a failing emergency write leaves
\* generate2DImage and generateNFT as an exception
OuterCatch(c, emergencyOk) ==
  [call |-> IF emergencyOk
            THEN [c EXCEPT !.at = "pixelate", !.componentInfo = NoSelection,
                           !.layerDrawn = FALSE, !.artifact = ErrorCanvas]
            ELSE [c EXCEPT !.at = "raised", !.componentInfo = NoSelection,
                           !.layerDrawn = FALSE],
   canvas |-> ErrorCanvas]

\* the call of caller r runs from layer idx to its next suspension point:
\* await getRandomComponent for the next layer, or, after the loop, the save of
\* the canvas as it is now and the return to await generate2DImage. disk is
\* the first path the disk accepts: the primary path, the fallback path, the
\* emergency path of the outer catch, or none
RunLoop(c, idx, cats, cv, disk) ==
  LET n == NextLayer(idx, cats)
      after == [c EXCEPT !.layerIndex = n, !.drawnCategories = cats,
                         !.componentInfo = NoSelection, !.layerDrawn = FALSE]
  IN IF n < Len(layerConfig)
     THEN [call |-> [after EXCEPT !.at = "select"], canvas |-> cv]
     ELSE IF disk \in {"primary", "fallback"}
     THEN [call |-> [after EXCEPT !.at = "pixelate", !.artifact = cv], canvas |-> cv]
     ELSE OuterCatch(after, disk = "emergency")

\* POST /api/generate-space-baby -> SpaceBabyService.generate: this.generator
\* is null, initialize() calls nftStorage.initialize, which SupabaseStorage
\* does not define; the TypeError leaves initialize and generate, the route
\* answers 500. No Generator is built, no canvas is touched.
Post(r) ==
  /\ calls[r].at = "none"
  /\ calls' = [calls EXCEPT ![r].at = "status500"]
  /\ UNCHANGED <<layerConfig, storage, canvas, compositeVars, nftVars, twiceVars, sideVars>>

\* generateNFT(id, speciesOverride) called on the Generator: clear the canvas,
\* resolve the species; generate2DImage makes sure of the output folder, fills
\* the canvas white and enters the loop. A folder that is missing and cannot
\* be made takes the call to the outer catch before any layer is asked for
Arrive(r) ==
  /\ calls[r].at = "none"
  /\ \E speciesOverride \in {Absent, Green}, folderOk \in BOOLEAN,
        disk \in {"primary", "fallback", "emergency", "none"} :
       \E sp \in ResolveSpecies("generator", speciesOverride) :
         LET c == [NoCall EXCEPT !.species = sp]
             s == IF folderOk
                  THEN RunLoop(c, 0, {}, fillRect("white"), disk)
                  ELSE OuterCatch(c, disk = "emergency")
         IN /\ canvas' = s.canvas
            /\ calls' = [calls EXCEPT ![r] = s.call]
  /\ UNCHANGED <<layerConfig, storage, compositeVars, nftVars, twiceVars, sideVars>>

\* await getRandomComponent(layerInfo, species) resumes; with a component the
\* call enters drawLayer and suspends in await loadImage; without one the
\* loop goes on, and after the last layer the canvas is saved
Selected(r) ==
  /\ calls[r].at = "select"
  /\ \E resp \in Responses, disk \in {"primary", "fallback", "emergency", "none"} :
       \E sel \in getRandomComponent(storage, layerConfig[calls[r].layerIndex + 1],
                                     calls[r].species, resp) :
         LET c == calls[r]
             s == IF sel.kind = "component"
                  THEN [call |-> [c EXCEPT !.at = "load", !.componentInfo = sel],
                        canvas |-> canvas]
                  ELSE RunLoop(c, c.layerIndex + 1, c.drawnCategories, canvas, disk)
         IN /\ canvas' = s.canvas
            /\ calls' = [calls EXCEPT ![r] = s.call]
  /\ UNCHANGED <<layerConfig, storage, compositeVars, nftVars, twiceVars, sideVars>>

\* await loadImage(imageUrl) inside drawLayer resumes: draw on the shared
\* canvas and return; generate2DImage, suspended in await this.drawLayer, is
\* resumed by a later job
Loaded(r) ==
  /\ calls[r].at = "load"
  /\ \E decodeOk \in BOOLEAN, drawOk \in BOOLEAN :
       LET c == calls[r]
           d == drawLayer([c.componentInfo EXCEPT !.name = <<r, @>>], canvas,
                          decodeOk, drawOk)
       IN /\ canvas' = d.canvas
          /\ calls' = [calls EXCEPT ![r] =
                         [c EXCEPT !.at = "drawn", !.layerDrawn = d.drawn]]
  /\ UNCHANGED <<layerConfig, storage, compositeVars, nftVars, twiceVars, sideVars>>

\* await this.drawLayer(componentInfo, id) resumes: record the category, then
\* on to the next suspension point; after the last layer the canvas is saved
\* as it is at this moment
Drawn(r) ==
  /\ calls[r].at = "drawn"
  /\ \E disk \in {"primary", "fallback", "emergency", "none"} :
       LET c == calls[r]
           category == layerConfig[c.layerIndex + 1].category
           s == RunLoop(c, c.layerIndex + 1,
                        AddDrawn(c.drawnCategories, category, c.layerDrawn),
                        canvas, disk)
       IN /\ canvas' = s.canvas
          /\ calls' = [calls EXCEPT ![r] = s.call]
  /\ UNCHANGED <<layerConfig, storage, compositeVars, nftVars, twiceVars, sideVars>>

\* await generate2DImage resumes with the existsSync test and pixelateImage
\* with its copies, then the two awaited uploads, then the metadata write and
\* the return; the test, a failed last copy and a failed metadata write end
\* the call by an exception; a first upload that fails is caught, the second
\* is not attempted and the metadata write follows at once
Finish(r) ==
  /\ calls[r].at \in {"pixelate", "upload", "upload2"}
  /\ \E ok \in BOOLEAN, writeOk \in BOOLEAN :
       calls' = [calls EXCEPT ![r].at =
                   IF @ = "pixelate" THEN (IF ok THEN "upload" ELSE "raised")
                   ELSE IF @ = "upload" /\ ok THEN "upload2"
                   ELSE IF writeOk THEN "returned" ELSE "raised"]
  /\ UNCHANGED <<layerConfig, storage, canvas, compositeVars, nftVars, twiceVars, sideVars>>

NextService ==
  \/ \E r \in Requests : Post(r)
  \/ \E r \in Requests : Arrive(r)
  \/ \E r \in Requests : Selected(r)
  \/ \E r \in Requests : Loaded(r)
  \/ \E r \in Requests : Drawn(r)
  \/ \E r \in Requests : Finish(r)

SpecService == InitService /\ [][NextService]_vars

\* ==================================================== two calls in a row
\* generateNFT(id, species) twice on one Generator, the environment answering
\* the second call as it answered the first: one candidate per category, each
\* image loading the same way, the disk taking the same writes

\* the environments: one candidate per category of the configuration, the
\* candidates whose image fails to load, the path the disk accepts
Worlds(config) ==
  LET cats == {config[i].category : i \in 1..Len(config)}
  IN {w \in [listing : [cats -> FilePool], broken : SUBSET FilePool,
              disk : {"primary", "fallback", "emergency"}] :
        w.broken \subseteq {w.listing[c] : c \in cats}}

InitTwice ==
  /\ program = "generator"
  /\ layerConfig \in NFTLayerConfigs
  /\ storage = "supabase"
  /\ request \in SpeciesSet
  /\ count = 1
  /\ InitGenerator
  /\ stage = "idle"
  /\ nftSpecies = <<>>
  /\ nftId = 1
  /\ attempts = <<>>
  /\ outcomes = <<>>
  /\ results = <<>>
  /\ InitCall
  /\ calls = <<>>
  /\ world \in Worlds(layerConfig)
  /\ callNo = 1
  /\ firstResult = NoFirstResult
  /\ InitSide

\* generate2DImage starts, the output folder exists
TwiceCompose ==
  /\ Compose
  /\ pc' = "loop"

\* the repository lists the one candidate of the category
TwiceSelect ==
  /\ SelectComponent
  /\ response' = [kind |-> "list", data |-> <<world.listing[layerInfo.category]>>]

\* the image loads unless it is one of the broken ones, and a loaded image
\* draws
TwiceDraw ==
  /\ DrawSelected
  /\ log'[Len(log')].decoded = (componentInfo.name \notin world.broken)
  /\ log'[Len(log')].painted = log'[Len(log')].decoded

\* the disk accepts the path it always accepts
TwiceSave ==
  /\ SaveImage
  /\ result'.status = "returned"
  /\ result'.nftPath = world.disk

\* the artifact is where it was written, the transform works, the sink takes
\* what it is given, the metadata file can be written
TwicePixelate ==
  /\ Pixelate
  /\ stage' = "upload"
  /\ pixelation' = [transform |-> "ok", canCopy |-> TRUE]

TwiceUpload ==
  /\ Upload
  /\ HasUploadFile(storage) => uploaded' = {"image.png"}

TwiceUploadPixelated ==
  /\ UploadPixelated
  /\ uploaded' = {"image.png", "image_pixelated.png"}

TwiceWriteMetadata ==
  /\ WriteMetadata
  /\ stage' = "returned"

\* the first call has returned: call again with the same identifier and
\* species
CallAgain ==
  /\ callNo = 1
  /\ stage = "returned"
  /\ firstResult' = [status |-> result.status, traits |-> result.attributes]
  /\ callNo' = 2
  /\ stage' = "idle"
  /\ UNCHANGED <<layerConfig, storage, canvas, compositeVars, calls, world, sideVars>>
  /\ UNCHANGED <<nftSpecies, program, request, count, nftId, attempts, outcomes,
                 results, pixelatedImage, pixelation, nftUrl, pixelatedUrl,
                 uploaded, metadata, nftResult, nftError>>

NextTwice ==
  \/ GenerateNFT
  \/ TwiceCompose
  \/ SkipDuplicate
  \/ TwiceSelect
  \/ SkipLayer
  \/ TwiceDraw
  \/ TwiceSave
  \/ TwicePixelate
  \/ TwiceUpload
  \/ TwiceUploadPixelated
  \/ TwiceWriteMetadata
  \/ CallAgain

SpecTwice == InitTwice /\ [][NextTwice]_vars

\* ================================================== drawLayer: placement
MaxImageSide == 4     \* natural widths and heights 1..MaxImageSide of a loaded image

\* JavaScript numbers are IEEE 754 doubles: every division, product and
\* difference of drawLayer is rounded to 53 binary digits. The mantissa of a
\* double does not fit a machine integer of the checker, so it is kept as a
\* natural number of any size.

\* natural numbers of any size: limbs to the base 2^14, lowest first, no
\* leading zero limb
Base == 16384

Bigs == Seq(0..(Base - 1))

Trim[a \in Bigs] ==
  IF a # <<>> /\ a[Len(a)] = 0 THEN Trim[SubSeq(a, 1, Len(a) - 1)] ELSE a

BigOf[n \in Nat] == IF n = 0 THEN <<>> ELSE <<n % Base>> \o BigOf[n \div Base]

BigAdd[a \in Bigs, b \in Bigs] ==
  LET Limb(s, i) == IF i <= Len(s) THEN s[i] ELSE 0
      AddFrom[i \in Nat, carry \in 0..1] ==
        IF i > Len(a) /\ i > Len(b)
        THEN IF carry = 0 THEN <<>> ELSE <<carry>>
        ELSE LET t == Limb(a, i) + Limb(b, i) + carry
             IN <<t % Base>> \o AddFrom[i + 1, t \div Base]
  IN AddFrom[1, 0]

\* a - b for a >= b
BigSub[a \in Bigs, b \in Bigs] ==
  LET Limb(s, i) == IF i <= Len(s) THEN s[i] ELSE 0
      SubFrom[i \in Nat, borrow \in 0..1] ==
        IF i > Len(a) THEN <<>>
        ELSE LET t == a[i] - Limb(b, i) - borrow
             IN <<(t + Base) % Base>> \o SubFrom[i + 1, IF t < 0 THEN 1 ELSE 0]
  IN Trim[SubFrom[1, 0]]

\* a * k for 0 <= k < Base, shifted up by n limbs
MulSmall[a \in Bigs, k \in 0..(Base - 1), n \in Nat] ==
  LET MulFrom[i \in Nat, carry \in 0..(Base - 1)] ==
        IF i > Len(a)
        THEN IF carry = 0 THEN <<>> ELSE <<carry>>
        ELSE LET t == a[i] * k + carry
             IN <<t % Base>> \o MulFrom[i + 1, t \div Base]
  IN IF k = 0 \/ a = <<>> THEN <<>> ELSE [i \in 1..n |-> 0] \o MulFrom[1, 0]

BigMul[a \in Bigs, b \in Bigs] ==
  LET Rows[i \in Nat] ==
        IF i > Len(b) THEN <<>>
        ELSE BigAdd[MulSmall[a, b[i], i - 1], Rows[i + 1]]
  IN Rows[1]

\* a * 2^n
Shl[a \in Bigs, n \in Nat] == MulSmall[a, 2 ^ (n % 14), n \div 14]

\* remainder, then the limbs of the quotient, of a by k, 0 < k <= Base
DivSmall[a \in Bigs, k \in 1..Base] ==
  LET DivFrom[i \in Nat, rem \in 0..(Base - 1)] ==
        IF i = 0 THEN <<rem>>
        ELSE LET t == rem * Base + a[i]
             IN DivFrom[i - 1, t % k] \o <<t \div k>>
  IN DivFrom[Len(a), 0]

\* the number (-1)^neg * m * 2^e; a double has m = 0 or 2^52 <= m < 2^53
Dyadic(neg, m, e) == [neg |-> neg, m |-> m, e |-> e]

Dyadics == [neg : BOOLEAN, m : Bigs, e : Int]

\* the double nearest to a dyadic number, ties to the even mantissa (the
\* numbers met here are far from the subnormal and the infinite range)
Round[x \in Dyadics] ==
  LET Bits[n \in Nat] == IF n = 0 THEN 0 ELSE 1 + Bits[n \div 2]
      \* number of binary digits
      BitLen[a \in Bigs] ==
        IF a = <<>> THEN 0 ELSE 14 * (Len(a) - 1) + Bits[a[Len(a)]]
      s == BitLen[x.m] - 53
      \* the top 54 binary digits and whether anything non-zero lies below
      limbs == (s - 1) \div 14
      high == DivSmall[SubSeq(x.m, limbs + 1, Len(x.m)), 2 ^ ((s - 1) % 14)]
      sticky == high[1] # 0 \/ \E i \in 1..limbs : x.m[i] # 0
      half == DivSmall[Trim[Tail(high)], 2]
      up == half[1] = 1 /\ (sticky \/ half[2] % 2 = 1)
      m == IF up THEN BigAdd[Tail(half), <<1>>] ELSE Tail(half)
  IN IF x.m = <<>> THEN Dyadic(FALSE, <<>>, 0)
     ELSE IF s <= 0 THEN Dyadic(x.neg, Shl[x.m, -s], x.e + s)
     ELSE IF BitLen[m] = 54 THEN Dyadic(x.neg, Trim[Tail(DivSmall[m, 2])], x.e + s + 1)
     ELSE Dyadic(x.neg, m, x.e + s)

\* the exact sum of two dyadic numbers
Sum[x \in Dyadics, y \in Dyadics] ==
  LET e == IF x.e < y.e THEN x.e ELSE y.e
      a == Shl[x.m, x.e - e]
      b == Shl[y.m, y.e - e]
      CmpAt[i \in Nat] ==
        IF i = 0 THEN 0
        ELSE IF a[i] < b[i] THEN -1
        ELSE IF a[i] > b[i] THEN 1
        ELSE CmpAt[i - 1]
      \* -1, 0, 1 as a < b, a = b, a > b
      c == IF Len(a) < Len(b) THEN -1
           ELSE IF Len(a) > Len(b) THEN 1
           ELSE CmpAt[Len(a)]
  IN IF x.neg = y.neg THEN Dyadic(x.neg, BigAdd[a, b], e)
     ELSE IF c = 0 THEN Dyadic(FALSE, <<>>, 0)
     ELSE IF c > 0 THEN Dyadic(x.neg, BigSub[a, b], e)
     ELSE Dyadic(y.neg, BigSub[b, a], e)

\* the double of a whole number n >= 0
Whole[n \in Nat] == Round[Dyadic(FALSE, BigOf[n], 0)]

\* the double n / d of two whole numbers, 0 < d < Base: the quotient to 70
\* binary places and one more digit that records a remainder
Rat[n \in Nat, d \in 1..(Base - 1)] ==
  LET qr == DivSmall[Shl[BigOf[n], 70], d]
  IN Round[Dyadic(FALSE,
                  BigAdd[MulSmall[Trim[Tail(qr)], 2, 0],
                         IF qr[1] = 0 THEN <<>> ELSE <<1>>],
                  -71)]

\* a * b, a - b, a <= b and Math.min(a, b) on doubles
Mul[a \in Dyadics, b \in Dyadics] ==
  Round[Dyadic(a.neg # b.neg, BigMul[a.m, b.m], a.e + b.e)]
Sub[a \in Dyadics, b \in Dyadics] == Round[Sum[a, [b EXCEPT !.neg = ~@]]]
Leq[a \in Dyadics, b \in Dyadics] ==
  LET d == Sum[a, [b EXCEPT !.neg = ~@]] IN d.m = <<>> \/ d.neg
Min[a \in Dyadics, b \in Dyadics] == IF Leq[a, b] THEN a ELSE b

Rect(x, y, w, h) == [drawX |-> x, drawY |-> y, drawWidth |-> w, drawHeight |-> h]

\* uniform scale Math.min(width / image.width * fw, height / image.height * fh)
Scale(img, sz, fw, fh) ==
  Min[Mul[Rat[sz.width, img.width], fw], Mul[Rat[sz.height, img.height], fh]]

\* the accessory branch: drawY by category
AccessoryY(category, sz) ==
  IF category = "hats" THEN Mul[Whole[sz.height], Rat[5, 100]]
  ELSE IF category = "neck" THEN Mul[Whole[sz.height], Rat[69, 100]]
  ELSE IF category = "binky" THEN Mul[Whole[sz.height], Rat[4, 10]]
  ELSE Mul[Whole[sz.height], Rat[2, 10]]

\* base without Math.min: the image is scaled to the canvas width only
BaseRectWidthOnly(img, sz) ==
  LET scale == Rat[sz.width, img.width]
      w == Mul[Whole[img.width], scale]
      h == Mul[Whole[img.height], scale]
  IN Rect(Mul[Sub[Whole[sz.width], w], Rat[1, 2]],
          Mul[Sub[Whole[sz.height], h], Rat[4, 10]], w, h)

BaseRect(img, sz) ==
  LET scale == Scale(img, sz, Whole[1], Whole[1])
      w == Mul[Whole[img.width], scale]
      h == Mul[Whole[img.height], scale]
  IN Rect(Mul[Sub[Whole[sz.width], w], Rat[1, 2]],
          Mul[Sub[Whole[sz.height], h], Rat[4, 10]], w, h)

\* background drawn with the scale of the base role
BackgroundRectFitted(img, sz) == BaseRect(img, sz)

BackgroundRect(img, sz) ==
  Rect(Whole[0], Whole[0], Whole[sz.width], Whole[sz.height])

\* the if / else-if chain of drawLayer on type, then on category
place(img, sz) ==
  IF img.type = "background" THEN BackgroundRect(img, sz)
  ELSE IF img.type = "base" THEN BaseRect(img, sz)
  ELSE IF img.type = "feature"
  THEN LET scale == Scale(img, sz, Rat[8, 10], Rat[5, 10])
           w == Mul[Whole[img.width], scale]
       IN Rect(Mul[Sub[Whole[sz.width], w], Rat[1, 2]],
               Mul[Whole[sz.height], Rat[3, 10]],
               w, Mul[Whole[img.height], scale])
  ELSE IF img.type = "outfit"
  THEN LET heightScale == Scale(img, sz, Rat[9, 10], Rat[9, 10])
           widthScale == Mul[heightScale, Rat[115, 100]]
           w == Mul[Whole[img.width], widthScale]
       IN Rect(Mul[Sub[Whole[sz.width], w], Rat[1, 2]],
               Mul[Whole[sz.height], Rat[1, 10]],
               w, Mul[Whole[img.height], heightScale])
  ELSE LET scale == Scale(img, sz, Rat[7, 10], Rat[5, 10])
           w == Mul[Whole[img.width], scale]
       IN Rect(Mul[Sub[Whole[sz.width], w], Rat[1, 2]],
               AccessoryY(img.category, sz),
               w, Mul[Whole[img.height], scale])

Roles == {"background", "base", "feature", "outfit", "accessory", "special"}
PlacedCategories == {"background", "head", "hats", "neck", "binky", "special"}
CanvasSizes ==
  {DefaultSize, [width |-> 512, height |-> 256], [width |-> 256, height |-> 512],
   [width |-> 500, height |-> 300]}

\* natural widths and heights: the small ones, a 15 pixel strip and the two
\* sides of a 1920x1080 picture
Images ==
  LET ImageSides == (1..MaxImageSide) \cup {15, 1080, 1920}
  IN [type : Roles, category : PlacedCategories,
      width : ImageSides, height : ImageSides]

\* a Generator whose one layer is the layer of the image about to be drawn
InitPlace ==
  /\ size \in CanvasSizes
  /\ image \in Images
  /\ drawRect = NoRect
  /\ layerConfig = << [category |-> image.category, type |-> image.type,
                       optional |-> FALSE] >>
  /\ storage = "none"
  /\ InitGenerator
  /\ stage = "off"
  /\ nftSpecies = <<>>
  /\ program = "generator"
  /\ request = Absent
  /\ count = 0
  /\ nftId = 0
  /\ attempts = <<>>
  /\ outcomes = <<>>
  /\ results = <<>>
  /\ InitCall
  /\ calls = <<>>
  /\ InitWorld
  /\ users = NoUsers
  /\ auth = <<>>

\* drawLayer(imageInfo, id) after loadImage resolved: the rectangle is
\* computed and handed to ctx.drawImage, which draws the image on the canvas;
\* a drawImage that throws leaves the canvas of a background white and any
\* other canvas as it was; the log keeps the return value
Place ==
  /\ image # NoImage
  /\ drawRect = NoRect
  /\ drawRect' = place(image, size)
  /\ \E drawOk \in BOOLEAN :
       LET imageInfo == Component([url |-> NoUrl, name |-> <<"a", ".", "p", "n", "g">>],
                                  layerConfig[1])
           d == drawLayer(imageInfo, canvas, TRUE, drawOk)
       IN /\ canvas' = d.canvas
          /\ log' = Append(log, LogEntry(0, "none", "component", TRUE,
                                         d.painted, d.drawn))
  /\ UNCHANGED <<layerConfig, storage, pc, species, layerIndex, attributes,
                 drawnCategories, backgroundDrawn, response, componentInfo, result,
                 nftVars, calls, twiceVars, size, image, authVars>>

NextPlace == Place

SpecPlace == InitPlace /\ [][NextPlace]_vars

\* ============================================ UserService.authenticateWallet
MaxAuthCalls == 2     \* number of POST /api/auth/wallet requests explored

AuthCalls == 1..MaxAuthCalls

Wallets == {"walletA", "walletB"}

\* a request body without wallet_address, or with an empty one: falsy
NoWallet == ""

NoAuth == [pc |-> "idle", wallet_address |-> NoWallet, existingUser |-> 0]

User(id, wallet) == [id |-> id, wallet_address |-> wallet, logins |-> 1]

\* rows of the users table with the given wallet address
RowsOf(wallet) == {i \in 1..Len(users.rows) : users.rows[i].wallet_address = wallet}

\* the server with its users table, empty or holding one user; the schema of
\* the table is not part of the repository: it may or may not refuse a second
\* row with the same wallet address
InitAuth ==
  /\ users \in [rows : {<<>>, <<User(1, "walletA")>>}, unique : BOOLEAN]
  /\ auth = [c \in AuthCalls |-> NoAuth]
  /\ layerConfig = << [category |-> "background", type |-> "background",
                       optional |-> FALSE],
                      [category |-> "head", type |-> "base", optional |-> FALSE] >>
  /\ storage = "supabase"
  /\ InitGenerator
  /\ stage = "off"
  /\ nftSpecies = <<>>
  /\ program = "script"
  /\ request = Absent
  /\ count = 0
  /\ nftId = 0
  /\ attempts = <<>>
  /\ outcomes = <<>>
  /\ results = <<>>
  /\ InitCall
  /\ calls = <<>>
  /\ InitWorld
  /\ size = DefaultSize
  /\ image = NoImage
  /\ drawRect = NoRect

AuthFrame ==
  UNCHANGED <<layerConfig, storage, canvas, compositeVars, nftVars, calls,
              twiceVars, placeVars>>

\* POST /api/auth/wallet: 400 without a wallet address, else
\* authenticateWallet issues the select and awaits it
AuthRequest(c) ==
  /\ auth[c].pc = "idle"
  /\ \E w \in Wallets \cup {NoWallet} :
       auth' = [auth EXCEPT ![c] =
                  IF w = NoWallet THEN [NoAuth EXCEPT !.pc = "rejected"]
                  ELSE [pc |-> "select", wallet_address |-> w, existingUser |-> 0]]
  /\ UNCHANGED users
  /\ AuthFrame

\* the select().eq('wallet_address', ...).single() is answered: one row is the
\* existing user; no row is PGRST116, which the code takes as "insert"; any
\* other error is thrown. Several rows make single() fail, with PGRST116 or
\* with another code.
AuthLookup(c) ==
  /\ auth[c].pc = "select"
  /\ LET rows == RowsOf(auth[c].wallet_address)
     IN \E failure \in {"none", "PGRST116", "other"} :
          /\ failure = "none" => Cardinality(rows) = 1
          /\ failure = "PGRST116" => Cardinality(rows) # 1
          /\ auth' = [auth EXCEPT ![c] =
                        IF failure = "other" THEN [@ EXCEPT !.pc = "raised"]
                        ELSE IF failure = "none"
                        THEN [@ EXCEPT !.pc = "update",
                                       !.existingUser = CHOOSE i \in rows : TRUE]
                        ELSE [@ EXCEPT !.pc = "insert"]]
  /\ UNCHANGED users
  /\ AuthFrame

\* update({last_login, wallet_type}).eq('id', existingUser.id)
AuthUpdate(c) ==
  /\ auth[c].pc = "update"
  /\ \E ok \in BOOLEAN :
       IF ok
       THEN /\ users' = [users EXCEPT !.rows[auth[c].existingUser].logins = @ + 1]
            /\ auth' = [auth EXCEPT ![c].pc = "returned"]
       ELSE /\ auth' = [auth EXCEPT ![c].pc = "raised"]
            /\ UNCHANGED users
  /\ AuthFrame

\* insert({wallet_address, ...}): refused by a table that keeps wallet
\* addresses unique and already has the address
AuthInsert(c) ==
  /\ auth[c].pc = "insert"
  /\ \E ok \in BOOLEAN :
       IF ok /\ ~(users.unique /\ RowsOf(auth[c].wallet_address) # {})
       THEN /\ users' = [users EXCEPT !.rows =
                           Append(@, User(Len(@) + 1, auth[c].wallet_address))]
            /\ auth' = [auth EXCEPT ![c].pc = "returned",
                                    ![c].existingUser = Len(users.rows) + 1]
       ELSE /\ auth' = [auth EXCEPT ![c].pc = "raised"]
            /\ UNCHANGED users
  /\ AuthFrame

NextAuth ==
  \/ \E c \in AuthCalls : AuthRequest(c)
  \/ \E c \in AuthCalls : AuthLookup(c)
  \/ \E c \in AuthCalls : AuthUpdate(c)
  \/ \E c \in AuthCalls : AuthInsert(c)

SpecAuth == InitAuth /\ [][NextAuth]_vars

\* ================================================================= claims
Range(f) == {f[i] : i \in DOMAIN f}

TraitTypes(attrs) == [i \in 1..Len(attrs) |-> attrs[i].trait_type]

CountType(attrs, t) == Cardinality({i \in 1..Len(attrs) : attrs[i].trait_type = t})

LayerOf(entry) == layerConfig[entry.index + 1]

IsPainted(entry) == entry.painted

\* image kinds by the name's lower-cased ending
RecognizedKinds == {DotPng, DotSvg, DotJpg, DotJpeg}
IsRecognizedKind(name) == \E k \in RecognizedKinds : endsWith(toLowerCase(name), k)
IsVectorKind(name) == endsWith(toLowerCase(name), DotSvg)
RecognizedNames(resp) == {n \in Range(resp.data) : IsRecognizedKind(n)}

\* a repository listing arrived (not a failed list call) and is being handled
ListingAnswered ==
  pc = "selected" /\ storage # "none" /\ response.kind \in {"null", "list"}

LayerFailed(entry) ==
  \/ entry.sel = "throw"
  \/ entry.sel = "component" /\ ~entry.painted

\* C1: a failure while processing one layer (selector failure, decode failure,
\* draw failure) never ends the composite: the loop goes on to the next layer,
\* and a call that has entered the loop ends only after every layer of the
\* configuration has been processed, in order.
C1_LayerFailureNeverAborts ==
  /\ pc \in {"loop", "selected"} => Len(log) = layerIndex
  /\ pc = "done" /\ attributes # <<>> => Len(log) = Len(layerConfig)
  /\ \A i \in 1..Len(log) : LayerFailed(log[i]) => ~log[i].painted
  /\ \A i \in 1..Len(log) : log[i].index = i - 1

C1_Witness ==
  /\ pc = "done"
  /\ result.status = "returned"
  /\ Len(log) = 2
  /\ LayerFailed(log[1])
  /\ log[1].sel = "throw"
  /\ log[2].painted

\* C2 (as claimed): when a required layer got an empty listing, the call does
\* not return a normal result whose trait list lacks that category.
C2_RequiredEmptyNeverSilent ==
  pc = "done" /\ result.status = "returned"
    => \A i \in 1..Len(log) :
         (~LayerOf(log[i]).optional /\ log[i].resp = "empty")
           => \/ result.attributes = ErrorAttributes
              \/ LayerOf(log[i]).category \in Range(TraitTypes(result.attributes))

\* C3: each layer category is the trait type of at most one entry of the
\* trait list, during the call and in the returned result.
C3_CategoryAtMostOnce ==
  \A l \in Range(layerConfig) :
    /\ CountType(attributes, l.category) <= 1
    /\ CountType(result.attributes, l.category) <= 1

C3_Witness ==
  /\ pc = "done"
  /\ result.status = "returned"
  /\ Len(layerConfig) = 2
  /\ layerConfig[1].category = layerConfig[2].category
  /\ Len(log) = 2
  /\ log[1].drawn
  /\ log[2].sel = "duplicate"
  /\ Len(result.attributes) = 2

\* C4 (as claimed): every returned result has exactly one "species" entry
\* and it is the first one.
C4_SpeciesFirstInEveryResult ==
  result.status = "returned"
    => /\ Len(result.attributes) >= 1
       /\ result.attributes[1].trait_type = "species"
       /\ CountType(result.attributes, "species") = 1

\* C4 (amended): every result returned outside the catastrophic fallback has
\* exactly one "species" entry, the first one, carrying the call's species;
\* the catastrophic-fallback result is the single entry error:generation_failed.
C4_SpeciesFirstUnlessFallback ==
  result.status = "returned"
    => IF result.nftPath = "emergency"
       THEN result.attributes = ErrorAttributes
       ELSE /\ Len(result.attributes) >= 1
            /\ result.attributes[1] = [trait_type |-> "species", value |-> species]
            /\ CountType(result.attributes, "species") = 1

C4_Witness ==
  /\ result.status = "returned"
  /\ result.nftPath = "fallback"
  /\ Len(result.attributes) = 3
  /\ result.attributes[1].trait_type = "species"

\* C5 (as claimed): the traits after the species entry are exactly the
\* categories whose selected image was decoded and drawn on the canvas, in
\* order; a layer whose decode or draw failed has no trait.
C5_TraitsMirrorDrawnImages ==
  attributes # <<>>
    => LET painted == SelectSeq(log, IsPainted)
       IN Tail(TraitTypes(attributes))
            = [i \in 1..Len(painted) |-> LayerOf(painted[i]).category]

\* C6: an optional layer whose listing is empty makes the selector return
\* null, and handling it changes neither traits, canvas, drawn categories nor
\* result: the loop just moves to the next layer.
C6_OptionalEmptySkipped ==
  [][ (ListingAnswered /\ layerInfo.optional /\ RespClass(response) = "empty")
        => /\ componentInfo.kind = "null"
           /\ attributes' = attributes
           /\ canvas' = canvas
           /\ drawnCategories' = drawnCategories
           /\ result' = result
           /\ pc' = "loop"
           /\ layerIndex' = layerIndex + 1 ]_vars

C6_Witness ==
  /\ pc = "done"
  /\ result.status = "returned"
  /\ result.nftPath = "primary"
  /\ Len(log) = 2
  /\ LayerOf(log[1]).optional
  /\ log[1].resp = "empty"
  /\ log[1].sel = "null"
  /\ log[2].painted
  /\ TraitTypes(result.attributes) = <<"species", LayerOf(log[2]).category>>
  /\ LayerOf(log[1]).category # LayerOf(log[2]).category

\* C7: for a base or feature layer whose listing holds a vector candidate,
\* the selector returns a component and it is a vector one.
C7_VectorPreferred ==
  (/\ ListingAnswered
   /\ layerInfo.type \in {"base", "feature"}
   /\ \E n \in RecognizedNames(response) : IsVectorKind(n))
    => /\ componentInfo.kind = "component"
       /\ IsVectorKind(componentInfo.name)

C7_Witness ==
  /\ ListingAnswered
  /\ layerInfo.type = "base"
  /\ \E n \in RecognizedNames(response) : ~IsVectorKind(n)
  /\ componentInfo.kind = "component"
  /\ IsVectorKind(componentInfo.name)

\* C8: for an answered listing the selector throws exactly when the layer is
\* required and no candidate is of a recognized kind, returns null exactly
\* when the layer is optional and no candidate is recognized, and returns a
\* component otherwise.
C8_SelectorOutcome ==
  ListingAnswered
    => LET none == RecognizedNames(response) = {}
       IN /\ componentInfo.kind = "throw" <=> (~layerInfo.optional /\ none)
          /\ componentInfo.kind = "null" <=> (layerInfo.optional /\ none)
          /\ componentInfo.kind = "component" <=> ~none
          /\ componentInfo.kind = "throw"
               => componentInfo.error
                    = (IF RespClass(response) = "empty" THEN "no_components"
                       ELSE "no_image_files")

C8_Witness ==
  /\ ListingAnswered
  /\ ~layerInfo.optional
  /\ Len(response.data) > 0
  /\ RecognizedNames(response) = {}
  /\ componentInfo.kind = "throw"

\* C9: a selected component is one of the recognized candidates of the
\* listing, located under the call's species and the layer's category and
\* tagged with the layer's category and role; and when the role is neither
\* base nor feature, or no vector candidate exists, every recognized
\* candidate is a possible selection.
C9_SelectionRange ==
  /\ (pc = "selected" /\ componentInfo.kind = "component")
       => /\ componentInfo.name \in RecognizedNames(response)
          /\ componentInfo.url = [species |-> species,
                                  category |-> layerInfo.category,
                                  name |-> componentInfo.name]
          /\ componentInfo.category = layerInfo.category
          /\ componentInfo.type = layerInfo.type
  /\ (/\ ListingAnswered
      /\ RecognizedNames(response) # {}
      /\ \/ layerInfo.type \notin {"base", "feature"}
         \/ \A n \in RecognizedNames(response) : ~IsVectorKind(n))
       => {c.name : c \in getRandomComponent(storage, layerInfo, species, response)}
            = RecognizedNames(response)

C9_Witness ==
  /\ ListingAnswered
  /\ layerInfo.type = "accessory"
  /\ Cardinality(RecognizedNames(response)) = 2
  /\ \E n \in RecognizedNames(response) : IsVectorKind(n)
  /\ componentInfo.kind = "component"
  /\ ~IsVectorKind(componentInfo.name)

\* C10 (as claimed): with either provider a failed listing is handled like an
\* empty one: null for an optional layer, a failure for a required one.
C10_ListingErrorLikeEmpty ==
  (pc = "selected" /\ storage # "none" /\ response.kind = "error")
    => componentInfo.kind = (IF layerInfo.optional THEN "null" ELSE "throw")

\* the categories of the layers whose drawLayer call reported a drawn layer, in
\* the order the loop processed them
IsDrawnEntry(entry) == entry.drawn

DrawnCategorySeq ==
  LET d == SelectSeq(log, IsDrawnEntry)
  IN [i \in 1..Len(d) |-> LayerOf(d[i]).category]

ConfigCategories == [i \in 1..Len(layerConfig) |-> layerConfig[i].category]

CompositeReturned ==
  pc = "done" /\ result.status = "returned" /\ result.nftPath # "emergency"

\* C11: layers are selected and drawn in the declared configuration order:
\* the layers are processed in strictly increasing layer index, the trait types
\* after the species trait are exactly the drawn categories in configuration
\* order, and when every layer is selected and drawn the returned traits are
\* [species, category_1, ..., category_n].
C11_ConfigurationOrder ==
  /\ \A i, j \in 1..Len(log) : i < j => log[i].index < log[j].index
  /\ attributes # <<>> => Tail(TraitTypes(attributes)) = DrawnCategorySeq
  /\ (CompositeReturned /\ Len(log) = Len(layerConfig)
        /\ \A i \in 1..Len(log) : log[i].painted)
       => TraitTypes(result.attributes) = <<"species">> \o ConfigCategories

\* a two-layer composite with two different categories, both drawn
C11_Witness ==
  /\ CompositeReturned
  /\ Len(log) = 2
  /\ log[1].painted /\ log[2].painted
  /\ layerConfig[1].category # layerConfig[2].category
  /\ TraitTypes(result.attributes)
       = <<"species", layerConfig[1].category, layerConfig[2].category>>

\* C20: whenever the loop of a composite has ended without a catastrophic
\* failure, the canvas that is about to be rasterized, and the one that was,
\* has an opaque white fill under whatever was drawn; it is never transparent.
C20_WhiteUnderEverything ==
  /\ (pc = "loop" /\ layerIndex >= Len(layerConfig)) => canvas.fill = "white"
  /\ CompositeReturned => canvas.fill = "white"

\* a background layer whose image failed to decode or draw, ready to rasterize
C20_Witness ==
  /\ pc = "loop" /\ layerIndex >= Len(layerConfig)
  /\ \E i \in 1..Len(log) :
       /\ LayerOf(log[i]).category = "background"
       /\ log[i].sel = "component" /\ ~log[i].painted
  /\ canvas.fill = "white"

\* C12: an unexpected exception during the generation of one identifier gives
\* the error artifact and the error-tagged result: no exception escapes
\* generateNFT to its caller.
C12_NoExceptionEscapes == stage # "raised"

IsReturnedOutcome(o) == o.outcome = "returned"

ReturnedIds ==
  LET r == SelectSeq(outcomes, IsReturnedOutcome)
  IN [i \in 1..Len(r) |-> r[i].id]

CallRunning == stage \in {"compose", "upload", "upload2", "metadata"}

\* C13: batch generation attempts the identifiers 1..N once each, in
\* increasing order and one after another: an attempt starts only when every
\* earlier attempt has returned or failed; a failed attempt does not keep the
\* later identifiers from being attempted, and the returned list holds exactly
\* the results of the attempts that returned, in identifier order.
C13_BatchSequential ==
  /\ attempts = [i \in 1..Len(attempts) |-> i]
  /\ \A i \in 1..Len(outcomes) : outcomes[i].id = i
  /\ Len(attempts) = Len(outcomes) + (IF CallRunning THEN 1 ELSE 0)
  /\ stage \in {"idle", "finished"} => results = ReturnedIds
  /\ stage = "finished" => Len(attempts) = count

\* a batch of two whose first attempt failed and whose second returned
C13_Witness ==
  /\ stage = "finished"
  /\ count = 2
  /\ Len(outcomes) = 2
  /\ outcomes[1].outcome = "raised"
  /\ outcomes[2].outcome = "returned"
  /\ results = <<2>>

\* C14: generations that use the same canvas are serialized: while one
\* generation is between clearing the canvas and finishing, no other
\* generation has cleared or drawn on it, also when the generations are
\* started by concurrent HTTP requests that share one Generator.
C14_GenerationsSerialized == Cardinality(InProgress) <= 1

TransformFailed == pixelation.transform \in {"throws", "nooutput"}

PastPixelation == stage \in {"upload", "upload2", "metadata", "returned"}

IsCopyOfPrimary(a) == a.content = "copy" /\ a.of = result.nftPath

\* C15: a failing pixelation transform never blocks generateNFT: the call
\* goes on with an unmodified copy of the primary artifact.
C15_TransformFailureNeverBlocks ==
  TransformFailed => /\ nftError # "copy"
                     /\ PastPixelation => IsCopyOfPrimary(pixelatedImage)

BothArtifacts == {"image.png", "image_pixelated.png"}

\* the uploads the running call has attempted once its upload step is over
AttemptedUploads ==
  IF program = "script" THEN BothArtifacts
  ELSE IF ~HasUploadFile(storage) THEN {}
  ELSE IF "image.png" \in uploaded THEN BothArtifacts
  ELSE {"image.png"}

FailedUploads == AttemptedUploads \ uploaded

AfterUpload ==
  \/ stage \in {"metadata", "returned"}
  \/ stage = "raised" /\ nftError = "metadata write"

IsLocalOrUnresolved(ref) == ref.kind \in {"local", "null"}

\* C16: a failed upload is absorbed: generateNFT goes on to the metadata
\* step, the only exception after the upload step is a failed metadata write,
\* and a returned result refers to every artifact whose upload failed by a
\* local path or an unresolved value, in the result and in its metadata.
C16_UploadFailureAbsorbed ==
  /\ AfterUpload =>
       /\ "image.png" \in FailedUploads => IsLocalOrUnresolved(nftUrl)
       /\ "image_pixelated.png" \in FailedUploads => IsLocalOrUnresolved(pixelatedUrl)
  /\ stage = "returned" =>
       /\ nftResult.nftUrl = nftUrl
       /\ nftResult.pixelatedUrl = pixelatedUrl
       /\ nftResult.metadata = metadata
       /\ metadata.images2D = nftUrl
       /\ metadata.imagesPixelated = pixelatedUrl
  /\ (stage = "raised" /\ FailedUploads # {} /\ pixelatedImage # NoArtifact)
       => nftError = "metadata write"

\* the Generator returned after its second upload failed
C16_Witness ==
  /\ stage = "returned"
  /\ program = "generator"
  /\ FailedUploads = {"image_pixelated.png"}
  /\ nftResult.nftUrl.kind = "url"
  /\ nftResult.pixelatedUrl.kind = "local"
  /\ metadata.imagesPixelated.kind = "local"

\* C17: whenever a storage provider (Supabase or S3) is configured on the
\* Generator and no upload fails, both artifacts are uploaded and the two
\* image references of the metadata are the URLs the sink returned.
C17_ConfiguredSinkGetsBoth ==
  (stage = "returned" /\ program = "generator" /\ storage # "none"
     /\ FailedUploads = {})
    => /\ uploaded = BothArtifacts
       /\ metadata.images2D = Url("image.png")
       /\ metadata.imagesPixelated = Url("image_pixelated.png")

RequestInScope == request \in SpeciesSet \cup {Random, Absent}

\* C18: species resolution: a configured species name is used unchanged,
\* "random" resolves to a member of the configured set, an absent request to
\* the fixed default; the species the generation works with is a member of
\* the configured set or the default, never the literal "random".
C18_SpeciesResolution ==
  (stage \notin {"idle", "off", "service"} /\ RequestInScope)
    => /\ request \in SpeciesSet => nftSpecies = request
       /\ request = Random => nftSpecies \in SpeciesSet
       /\ request = Absent => nftSpecies = DefaultSpecies
       /\ nftSpecies \in SpeciesSet \cup {DefaultSpecies}
       /\ nftSpecies # Random
       /\ pc # "idle" => species = nftSpecies

\* C19: two generateNFT calls in a row with the same identifier and species,
\* against a repository that lists the same single candidate per category
\* both times, give identical trait lists: nothing the first call left behind
\* (canvas, drawn categories, traits) changes the traits of the second.
C19_SecondCallSameTraits ==
  /\ (callNo = 2 /\ stage # "idle" /\ pc = "done" /\ firstResult.status = "returned")
       => result.attributes = firstResult.traits
  /\ (callNo = 2 /\ stage = "returned" /\ firstResult.status = "returned")
       => nftResult.metadata.attributes = firstResult.traits

\* the second call returned the first call's traits, a drawn layer among them
C19_Witness ==
  /\ callNo = 2
  /\ stage = "returned"
  /\ firstResult.status = "returned"
  /\ Len(firstResult.traits) >= 2
  /\ nftResult.metadata.attributes = firstResult.traits

Placed == drawRect # NoRect

FullCanvas == Rect(Whole[0], Whole[0], Whole[size.width], Whole[size.height])

\* C21: for a layer of role background the placement rectangle is exactly
\* (0, 0, canvas width, canvas height), whatever the natural size of the image.
C21_BackgroundFullCanvas ==
  (Placed /\ image.type = "background") => drawRect = FullCanvas

\* a background image whose aspect ratio differs from the canvas was drawn
C21_Witness ==
  /\ Placed
  /\ Len(canvas.stack) = 1
  /\ log[1].drawn /\ log[1].painted
  /\ image.type = "background"
  /\ image.width * size.height # image.height * size.width
  /\ drawRect = FullCanvas

WithCategory(img, c) == [img EXCEPT !.category = c]

AccessoryOffset(category) ==
  CASE category = "hats" -> Rat[5, 100]
    [] category = "neck" -> Rat[69, 100]
    [] category = "binky" -> Rat[4, 10]
    [] OTHER -> Rat[2, 10]

\* C22 (as stated): the category changes the placement only for the accessory
\* role (hats 0.05*H, neck 0.69*H, binky 0.4*H, others 0.2*H, same scale);
\* for every other role the rectangle is the same whatever the category is.
C22_CategoryOnlyForAccessory ==
  Placed =>
    /\ image.type = "accessory" =>
         /\ drawRect.drawY = Mul[Whole[size.height], AccessoryOffset(image.category)]
         /\ \A c \in PlacedCategories :
              /\ place(WithCategory(image, c), size).drawWidth = drawRect.drawWidth
              /\ place(WithCategory(image, c), size).drawHeight = drawRect.drawHeight
              /\ place(WithCategory(image, c), size).drawX = drawRect.drawX
    /\ image.type # "accessory" =>
         \A c \in PlacedCategories : place(WithCategory(image, c), size) = drawRect

\* the comparisons are exact: the sums are not rounded
InsideCanvas(r) ==
  /\ Leq[Whole[0], r.drawX]
  /\ Leq[Whole[0], r.drawY]
  /\ Leq[Sum[r.drawX, r.drawWidth], Whole[size.width]]
  /\ Leq[Sum[r.drawY, r.drawHeight], Whole[size.height]]

\* C29 (as stated): for roles base and feature and an image of positive
\* natural size the placement rectangle lies inside the canvas: x >= 0,
\* y >= 0, x + w <= canvas width, y + h <= canvas height.
C29_BaseAndFeatureInside ==
  (Placed /\ image.type \in {"base", "feature"}) => InsideCanvas(drawRect)

\* n * 2^-52: not less than the distance from the double n to the next one
Ulp(n) == Dyadic(FALSE, BigOf[n], -52)

Minus(x) == [x EXCEPT !.neg = ~@]

InsideUpToRounding(r) ==
  /\ Leq[Minus(Ulp(size.width)), r.drawX]
  /\ Leq[Minus(Ulp(size.height)), r.drawY]
  /\ Leq[Sum[r.drawX, r.drawWidth], Sum[Whole[size.width], Ulp(size.width)]]
  /\ Leq[Sum[r.drawY, r.drawHeight], Sum[Whole[size.height], Ulp(size.height)]]

PowerOfTwo(n) == \E k \in 0..13 : n = 2 ^ k

\* C29 (amended): for roles base and feature the placement rectangle lies
\* inside the canvas up to the rounding of the double arithmetic: no
\* inequality is missed by more than 2^-52 times the canvas side; for role
\* feature, and for role base on a canvas whose width and height are powers
\* of two (the default 512x512), it lies inside the canvas exactly.
C29_InsideUpToRounding ==
  (Placed /\ image.type \in {"base", "feature"})
    => /\ InsideUpToRounding(drawRect)
       /\ (\/ image.type = "feature"
           \/ PowerOfTwo(size.width) /\ PowerOfTwo(size.height))
            => InsideCanvas(drawRect)

\* a 15x1 base image was drawn on the 500x300 canvas: the product
\* 15 * (500 / 15) is rounded up to the double after 500, the rectangle is
\* wider than the canvas and starts left of it
C29_Witness ==
  /\ Placed
  /\ Len(canvas.stack) = 1
  /\ log[1].drawn /\ log[1].painted
  /\ image.type = "base"
  /\ size = [width |-> 500, height |-> 300]
  /\ image.width = 15 /\ image.height = 1
  /\ ~Leq[drawRect.drawWidth, Whole[size.width]]
  /\ drawRect.drawX.neg
  /\ ~InsideCanvas(drawRect)
  /\ InsideUpToRounding(drawRect)

DrawnEntries == {i \in 1..Len(log) : log[i].drawn}

\* C23: a layer whose category was already drawn in the running generation is
\* skipped without a repository query and without drawing, each category is
\* drawn at most once per generation, and the drawn-category set starts empty
\* in every generation.
C23_DuplicateGuard ==
  /\ [](\A i, j \in DrawnEntries :
          LayerOf(log[i]).category = LayerOf(log[j]).category => i = j)
  /\ [](drawnCategories = {LayerOf(log[i]).category : i \in DrawnEntries})
  /\ [][ (InLoop /\ layerInfo.category \in drawnCategories)
           => /\ pc' = "loop"
              /\ layerIndex' = layerIndex + 1
              /\ response' = NoResponse
              /\ componentInfo' = NoSelection
              /\ canvas' = canvas
              /\ attributes' = attributes
              /\ drawnCategories' = drawnCategories ]_vars
  /\ [][ (pc \in {"idle", "done"}) => (drawnCategories' = {}) ]_vars

\* the loop passed a layer whose category had been drawn by the layer before:
\* one image on the canvas, one category recorded
C23_Witness ==
  /\ pc = "loop"
  /\ result = NoResult
  /\ layerIndex = 2
  /\ Len(log) = 2
  /\ log[1].painted
  /\ log[2].sel = "duplicate"
  /\ Len(canvas.stack) = 1
  /\ drawnCategories = {layerConfig[1].category}

\* the last layer of the running call that repainted the whole canvas white
\* (a background that failed to load or draw), 0 if there is none
LastWhiteout ==
  LET outs == {i \in 1..Len(log) : log[i].drawn /\ ~log[i].painted}
  IN IF outs = {} THEN 0 ELSE CHOOSE i \in outs : \A k \in outs : k <= i

PaintedSinceWhiteout == {i \in 1..Len(log) : i > LastWhiteout /\ log[i].painted}

OwnLayersOnWhite ==
  /\ canvas.fill = "white"
  /\ Len(canvas.stack) = Cardinality(PaintedSinceWhiteout)

\* C24: in a sequence of generations on one Generator every composite starts
\* by resetting the canvas to opaque white, so the canvas that is rasterized
\* holds only layers drawn by the running generation, nothing of an earlier
\* one, the error-marker image of an earlier one included.
C24_CanvasResetEveryGeneration ==
  /\ [](pc \in {"loop", "selected"} => OwnLayersOnWhite)
  /\ []((pc = "done" /\ result.status = "returned" /\ result.nftPath # "emergency")
          => OwnLayersOnWhite)
  /\ [][ (pc \in {"idle", "done"} /\ pc' = "loop")
           => (canvas' = fillRect("white")) ]_vars

\* the first call drew layers and ended with the error-marker image; the
\* second call has drawn its own layers on white
C24_Witness ==
  /\ callNo = 2
  /\ firstResult.traits = ErrorAttributes
  /\ pc = "loop"
  /\ layerIndex = Len(layerConfig)
  /\ canvas.fill = "white"
  /\ canvas.stack # <<>>
  /\ Len(canvas.stack) = Cardinality(PaintedSinceWhiteout)

SavedToFallback == result.status = "returned" /\ result.nftPath = "fallback"

\* C25: when the primary save fails and the retry on the fallback path
\* succeeds, the generation does not fail: generate2DImage returns the
\* fallback path with the unchanged, non-error trait list, and pixelation,
\* upload and metadata work with that path and that list; such a call leaves
\* the pixelation step by an exception only when the file is gone from the
\* fallback path at the existsSync test or when every copy fails.
C25_FallbackSaveCarriesOn ==
  /\ []((pc = "done" /\ SavedToFallback)
          => /\ result.attributes = attributes
             /\ result.attributes # ErrorAttributes
             /\ result.attributes[1].trait_type = "species"
             /\ result.species = species
             /\ canvas.fill = "white"
             /\ nftError # "emergency write")
  /\ []((stage \in {"upload", "upload2", "metadata", "returned"} /\ SavedToFallback)
          => pixelatedImage.of = "fallback")
  /\ []((stage \in {"metadata", "returned"} /\ SavedToFallback /\ nftUrl.kind = "local")
          => nftUrl.file = "fallback")
  /\ []((stage = "returned" /\ SavedToFallback)
          => /\ nftResult.metadata.attributes = result.attributes
             /\ nftResult.metadata.attributes # ErrorAttributes)
  /\ [][ (stage = "compose" /\ pc = "done" /\ SavedToFallback /\ stage' = "raised")
           => (nftError' \in {"missing artifact", "copy"}) ]_vars

\* a call whose composite was saved on the fallback path returned a result
\* with a layer trait in its metadata
C25_Witness ==
  /\ stage = "returned"
  /\ SavedToFallback
  /\ pixelatedImage = [content |-> "pixelated", of |-> "fallback"]
  /\ Len(nftResult.metadata.attributes) >= 2
  /\ nftResult.metadata.attributes = attributes

StageOrder ==
  { <<"idle", "compose">>, <<"compose", "upload">>, <<"compose", "raised">>,
    <<"upload", "upload2">>, <<"upload", "metadata">>, <<"upload2", "metadata">>,
    <<"metadata", "returned">>, <<"metadata", "raised">> }

CompositeFinished == pc = "done" /\ result.status = "returned" /\ result.nftPath # ""

\* C26: the steps of one generateNFT call are ordered and gated: pixelation
\* only after the composite has finished and the primary artifact exists, no
\* upload before pixelation (or its copy fallback) has finished, the metadata
\* document only after the upload step, at most once, as the last step before
\* returning.
C26_StepsOrdered ==
  /\ [][ stage' # stage => <<stage, stage'>> \in StageOrder ]_vars
  /\ [](pixelation # NoPixelation => CompositeFinished)
  /\ [](pixelatedImage # NoArtifact
          => /\ CompositeFinished
             /\ pixelatedImage.content \in {"pixelated", "copy"}
             /\ pixelatedImage.of = result.nftPath)
  /\ []((nftUrl # NoRef \/ pixelatedUrl # NoRef \/ uploaded # {})
          => /\ pixelatedImage # NoArtifact
             /\ stage \in {"upload2", "metadata", "returned", "raised"})
  /\ [](metadata # NoMetadata
          => /\ stage = "returned"
             /\ nftUrl # NoRef
             /\ pixelatedUrl # NoRef
             /\ metadata.images2D = nftUrl
             /\ metadata.imagesPixelated = pixelatedUrl)
  /\ [][ metadata' # metadata
           => /\ stage = "metadata"
              /\ stage' = "returned"
              /\ metadata = NoMetadata ]_vars

\* a Generator call that went through all four steps with both uploads
\* accepted
C26_Witness ==
  /\ program = "generator"
  /\ stage = "returned"
  /\ CompositeFinished
  /\ pixelatedImage.content = "pixelated"
  /\ uploaded = BothArtifacts
  /\ metadata # NoMetadata
  /\ nftResult.metadata = metadata

LastEntry(l) == l[Len(l)]

LayerFrame ==
  /\ canvas' = canvas
  /\ drawnCategories' = drawnCategories
  /\ attributes' = attributes

\* C27: for a layer whose role is not background, a selector that returns
\* none, a selector that fails and an image that fails to decode all leave
\* the canvas, the drawn-category set and the trait list as they were.
C27_FailedLayerChangesNothing ==
  [][ (pc = "selected" /\ layerInfo.type # "background")
        => /\ componentInfo.kind \in {"null", "throw"} => LayerFrame
           /\ (componentInfo.kind = "component" /\ Len(log') = Len(log) + 1
                 /\ ~LastEntry(log').decoded) => LayerFrame ]_vars

\* after a drawn first layer, the image of a second layer that is not a
\* background failed to decode: the canvas still holds the first image only
C27_Witness ==
  /\ pc = "loop"
  /\ Len(log) = 2
  /\ log[1].painted
  /\ log[2].sel = "component"
  /\ ~log[2].decoded
  /\ layerConfig[2].type # "background"
  /\ layerConfig[2].category # layerConfig[1].category
  /\ Len(canvas.stack) = 1
  /\ drawnCategories = {layerConfig[1].category}
  /\ Len(attributes) = 2

GeneratorWithUploadFile == program = "generator" /\ HasUploadFile(storage)

\* C28: in Generator.generateNFT with a sink that has uploadFile, the
\* pixelated reference is a sink URL only if the primary reference is one:
\* the pixelated upload is attempted only after the primary upload succeeded,
\* and a failed primary upload leaves both references local paths.
C28_PixelatedUrlOnlyAfterPrimary ==
  (GeneratorWithUploadFile /\ AfterUpload)
    => /\ pixelatedUrl.kind = "url" => nftUrl.kind = "url"
       /\ "image_pixelated.png" \in uploaded => "image.png" \in uploaded
       /\ nftUrl.kind = "url" <=> "image.png" \in uploaded
       /\ pixelatedUrl.kind = "url" <=> "image_pixelated.png" \in uploaded
       /\ "image.png" \notin uploaded
            => /\ nftUrl = LocalPath(result.nftPath)
               /\ pixelatedUrl.kind = "local"
               /\ uploaded = {}

\* a Generator call with a Supabase sink returned after the primary upload
\* failed: nothing was uploaded and both references are local paths
C28_Witness ==
  /\ GeneratorWithUploadFile
  /\ stage = "returned"
  /\ uploaded = {}
  /\ nftResult.nftUrl = LocalPath(result.nftPath)
  /\ nftResult.pixelatedUrl.kind = "local"
  /\ result.nftPath = "primary"

\* C30 (as stated): after any set of authenticateWallet calls, concurrent
\* calls for one unknown wallet address included, the users table holds at
\* most one row per wallet address.
C30_OneRowPerWallet ==
  \A w \in Wallets : Cardinality(RowsOf(w)) <= 1

====
